---- MODULE Spec2Model ----
(***************************************************************************)
(* Model of the call orchestration core of Ezcord's browser client        *)
(* (src/script.js): the process-wide call/device flags, the local capture  *)
(* stream, the peer sessions (peerConnections), the direct-call handlers,  *)
(* the voice-channel handlers and the incoming-call prompt with its 30 s   *)
(* timer.  Every handler of script.js that touches this state is one       *)
(* action; a handler that awaits (getUserMedia, getDisplayMedia,           *)
(* setRemoteDescription, createOffer) is split at the await into a start    *)
(* action that records a pending task and a resume action per outcome.     *)
(* Streams are modelled up to renaming: the stream localStream refers to   *)
(* is given by its track flags, a session's senders say whether they carry *)
(* tracks of that stream or of an earlier one.                             *)
(***************************************************************************)
EXTENDS Integers, Sequences, FiniteSets, Bags, TLC

\* ------------------------------------------------------------------ bounds
MaxPeers == 2          \* remote transport ids 1..MaxPeers
MaxStreams == 2        \* capture streams that can be live at the same time
MaxTasks == 2          \* handlers suspended at an await at the same time
MaxTimers == 2         \* ringing timers pending at the same time
MaxDown == 1           \* relay -> client messages in flight
MaxUp == 1             \* client -> relay messages in flight
TickLen == 10          \* seconds that pass in one Tick
MaxRestarts == 2       \* calls of pc.restartIce() followed per session
MaxCands == 1          \* 'ice-candidate' messages followed per session
MaxSignals == 2        \* offers and answers of the local process counted

\* ------------------------------------------------------- program constants
RingTimeout == 30      \* setTimeout(..., 30000), in seconds

Peers == 1..MaxPeers
CallTypes == {"audio", "video"}
TextChannels == {"general", "random"}
VoiceChannels == {"voice"}

VARIABLES
    inCall,               \* let inCall
    localStream,          \* let localStream: null, or the track flags of the stream
    orphanStreams,        \* live capture streams that no variable refers to
    screenStream,         \* let screenStream: "null", or the capture it holds: "live", "ended"
    screenEndedListener,  \* the 'ended' listener of the held screen track is armed
    peerConnections,      \* let peerConnections: remote id -> session
    isVideoEnabled,       \* let isVideoEnabled
    isAudioEnabled,       \* let isAudioEnabled
    isMuted,              \* let isMuted
    preferredMicEnabled,  \* let preferredMicEnabled
    isDeafened,           \* let isDeafened
    currentChannel,       \* let currentChannel (the selected text channel)
    remoteParticipants,   \* children of #remoteParticipants: remote id -> its container
    currentCallDetails,   \* window.currentCallDetails
    socketConnected,      \* socket.connected
    tasks,                \* handlers suspended at an await (a bag of tasks)
    incomingHidden,       \* #incomingCall carries class "hidden"
    ringHandlers,         \* closures installed on #acceptCallBtn/#rejectCallBtn
    timers,               \* pending 30 s timers of showIncomingCall
    ringElapsed,          \* seconds since the prompt now shown was shown
    callInterfaceHidden,  \* #callInterface carries class "hidden"
    sent,                 \* messages handed to socket.emit by the last step
    last,                 \* name of the handler that ran last
    wellBehavedRelay,     \* environment: TRUE, the relay below; FALSE, any message may arrive
    relayMembers,         \* relay: remote members of the voice channel
    relayLocalIn,         \* relay: the local process is a member
    relayOwes,            \* relay: members that were told of the local join and will offer
    down,                 \* relay -> client messages in flight (FIFO)
    up,                   \* client -> relay messages in flight (FIFO)
    stale,                \* environment: messages sent for sessions closed since
    remotePeer            \* environment: the process at the other end of a direct call

deviceVars == <<isVideoEnabled, isAudioEnabled, isMuted, preferredMicEnabled, isDeafened>>
mediaVars == <<localStream, orphanStreams, screenStream, screenEndedListener>>
ringVars == <<incomingHidden, ringHandlers, timers, ringElapsed>>
vars == <<inCall, localStream, orphanStreams, screenStream, screenEndedListener,
          peerConnections, isVideoEnabled, isAudioEnabled, isMuted,
          preferredMicEnabled, isDeafened, currentChannel, remoteParticipants,
          currentCallDetails,
          socketConnected, tasks, incomingHidden, ringHandlers, timers,
          ringElapsed, callInterfaceHidden, sent, last, wellBehavedRelay,
          relayMembers, relayLocalIn, relayOwes, down, up, stale, remotePeer>>

\* ----------------------------------------------------------------- helpers
Min(S) == CHOOSE x \in S : \A y \in S : x <= y

Msg(type, to, arg) == [type |-> type, to |-> to, arg |-> arg]

OnOff(b) == IF b THEN "on" ELSE "off"

\* messages a handler emits under "if (socket && socket.connected)"
IfConnected(msgs) == IF socketConnected THEN msgs ELSE <<>>

NoCallDetails == [defined |-> FALSE, peer |-> 0, type |-> "none", isInitiator |-> FALSE]
NoHandlers == [defined |-> FALSE, caller |-> 0, type |-> "none"]

\* localStream === null
NoStream == [held |-> FALSE, audio |-> FALSE, video |-> FALSE]

\* a stream as getUserMedia returns it: one audio and one video track, enabled
FreshStream == [held |-> TRUE, audio |-> TRUE, video |-> TRUE]

LiveStreams == orphanStreams + (IF localStream.held THEN 1 ELSE 0)

\* getUserMedia can hand out one more stream
CanAcquire == LiveStreams < MaxStreams

Remove(f, S) == [x \in DOMAIN f \ S |-> f[x]]

Task(kind, peer, arg) == [kind |-> kind, peer |-> peer, arg |-> arg]

CanSuspend == BagCardinality(tasks) < MaxTasks

Pending(kind) == {t \in BagToSet(tasks) : t.kind = kind}

Resumed(t) == tasks (-) SetToBag({t})

Suspended(t) == tasks (+) SetToBag({t})

\* a closed RTCPeerConnection rejects every later operation: the handlers
\* still awaiting an operation of a session to a remote id in S end there
DropSessionTasks(ts, S) ==
    LET keep == {t \in BagToSet(ts) : ~(t.kind = "offer" /\ t.peer \in S)}
    IN [t \in keep |-> ts[t]]

\* the senders of the sessions once localStream no longer is the stream
\* whose tracks they carry
Stale(pcs) ==
    [p \in DOMAIN pcs |->
       [pcs[p] EXCEPT !.aud = IF @ = "local" THEN "stale" ELSE @,
                      !.vid = IF @ = "cam" THEN "stale" ELSE @]]

\* sorted enumeration of a set of remote ids (the order of Object.keys)
RECURSIVE SeqOfSet(_)
SeqOfSet(S) == IF S = {} THEN <<>> ELSE <<Min(S)>> \o SeqOfSet(S \ {Min(S)})

\* ------------------------------------------- #remoteParticipants (the DOM)
\* a container #participant-<id> as pc.ontrack builds it: with its video
\* element #remote-<id>, whose volume follows the deafened flag
NewParticipant(deaf) == [video |-> TRUE, volume |-> IF deaf THEN 0 ELSE 1, playing |-> TRUE]

\* pc.ontrack of the session to p (1832-1876): the container is built when
\* there is none; the stream goes to the video element when there is one
TrackRendered(rps, p, deaf) ==
    IF p \notin DOMAIN rps
      THEN rps @@ (p :> NewParticipant(deaf))
      ELSE [rps EXCEPT ![p].playing = rps[p].video]

\* document.getElementById(`remote-${p}`).remove(): the video element goes,
\* its container stays
VideoRemoved(rps, p) ==
    IF p \in DOMAIN rps
      THEN [rps EXCEPT ![p] = [video |-> FALSE, volume |-> 0, playing |-> FALSE]]
      ELSE rps

\* the volume loop of setSpeakerState over the video elements
VolumeSet(rps, enabled) ==
    [p \in DOMAIN rps |->
       IF rps[p].video THEN [rps[p] EXCEPT !.volume = IF enabled THEN 1 ELSE 0] ELSE rps[p]]

\* #remoteParticipants after leaveVoiceChannel(force) run with the children rps
LeaveRendered(force, rps) == IF inCall /\ force THEN <<>> ELSE rps

\* ------------------------------------------------------------ environment
IsVoiceMsg(m) == m.type \in {"join-voice-channel", "leave-voice-channel"}

\* no second process is followed
NoRemote ==
    [role |-> "none", id |-> 0, ctype |-> "", phase |-> "idle", session |-> "none",
     answered |-> FALSE, offersIn |-> 0, offersOut |-> 0, answersIn |-> 0, answersOut |-> 0]

\* the emitted messages the modelled relay carries: the channel announcements,
\* or the signalling addressed to the second process when one is followed
Relayed(m) ==
    IF remotePeer.role = "none"
      THEN IsVoiceMsg(m)
    ELSE IF remotePeer.role = "member"
      THEN \/ IsVoiceMsg(m)
           \/ m.type \in {"offer", "answer"} /\ m.to = remotePeer.id
    ELSE /\ m.type \in {"initiate-call", "accept-call", "offer", "answer"}
         /\ m.to = remotePeer.id

\* what a step that is not a message delivery does to the environment: with
\* the relay modelled, the channel announcements it emitted travel to it
\* the sessions the step closes
ClosedSessions == DOMAIN peerConnections \ DOMAIN peerConnections'

\* where stale messages are followed: what the peer of a session closed by
\* the step may still have in flight for it, a candidate, and the answer when
\* the session had sent its offer and not received one
staleAfter ==
    IF stale.tracked
      THEN [stale EXCEPT !.msgs =
              @ \cup {<<p, "ice-candidate">> : p \in ClosedSessions}
                \cup {<<p, "answer">> :
                        p \in {q \in ClosedSessions :
                                 /\ peerConnections[q].offer = "sent"
                                 /\ ~peerConnections[q].remote}}]
      ELSE stale

localEnv ==
    /\ up' = IF wellBehavedRelay THEN up \o SelectSeq(sent', Relayed) ELSE up
    /\ Len(up') <= MaxUp
    /\ stale' = staleAfter
    /\ UNCHANGED <<wellBehavedRelay, relayMembers, relayLocalIn, relayOwes, down, remotePeer>>

\* ------------------------------------------------------------------- Init
Init ==
    /\ inCall = FALSE
    /\ localStream = NoStream
    /\ orphanStreams = 0
    /\ screenStream = "null"
    /\ screenEndedListener = FALSE
    /\ peerConnections = <<>>
    /\ isVideoEnabled = TRUE
    /\ isAudioEnabled = TRUE
    /\ isMuted = FALSE
    /\ preferredMicEnabled = TRUE
    /\ isDeafened = FALSE
    /\ currentChannel = "general"
    /\ remoteParticipants = <<>>
    /\ currentCallDetails = NoCallDetails
    /\ socketConnected = TRUE
    /\ tasks = EmptyBag
    /\ incomingHidden = TRUE
    /\ ringHandlers = NoHandlers
    /\ timers = {}
    /\ ringElapsed = 0
    /\ callInterfaceHidden = TRUE
    /\ sent = <<>>
    /\ last = "init"
    /\ wellBehavedRelay \in BOOLEAN
    /\ stale \in {[tracked |-> b, msgs |-> {}] : b \in BOOLEAN}
    /\ remotePeer \in {NoRemote} \cup
         {[NoRemote EXCEPT !.role = r, !.id = p, !.ctype = ty] :
            r \in {"caller", "callee"}, p \in Peers, ty \in CallTypes}
         \cup {[NoRemote EXCEPT !.role = "member", !.id = p] : p \in Peers}
    /\ relayMembers = {}
    /\ relayLocalIn = FALSE
    /\ relayOwes = {}
    /\ down = <<>>
    /\ up = <<>>

\* ------------------------------------------------- device state (1357-1403)
\* variant of micStateEffect: skipPreferenceUpdate is not looked at
micStateEffect_alwaysUpdatesPreference(enabled, skipPreferenceUpdate, deaf) ==
    /\ preferredMicEnabled' = enabled
    /\ isAudioEnabled' = enabled
    /\ isMuted' = ~enabled
    /\ localStream' = IF localStream.held
                        THEN [localStream EXCEPT !.audio = (enabled /\ ~deaf)]
                        ELSE localStream

\* body of setMicrophoneState(enabled, {skipPreferenceUpdate}); deaf is the
\* value isDeafened has when the body runs
micStateEffect(enabled, skipPreferenceUpdate, deaf) ==
    /\ preferredMicEnabled' = IF skipPreferenceUpdate THEN preferredMicEnabled ELSE enabled
    /\ isAudioEnabled' = enabled
    /\ isMuted' = ~enabled
    /\ localStream' = IF localStream.held
                        THEN [localStream EXCEPT !.audio = (enabled /\ ~deaf)]
                        ELSE localStream

\* the settings microphone toggle: setMicrophoneState(e.target.checked)
setMicrophoneState(enabled) ==
    /\ micStateEffect(enabled, FALSE, isDeafened)
    /\ sent' = <<>>
    /\ last' = "setMicrophoneState"
    /\ UNCHANGED <<inCall, orphanStreams, screenStream, screenEndedListener,
                   peerConnections, isVideoEnabled, isDeafened, currentChannel, remoteParticipants,
                   currentCallDetails, socketConnected, tasks, ringVars,
                   callInterfaceHidden>>
    /\ localEnv

toggleAudio ==
    /\ micStateEffect(~isAudioEnabled, FALSE, isDeafened)
    /\ sent' = <<>>
    /\ last' = "toggleAudio"
    /\ UNCHANGED <<inCall, orphanStreams, screenStream, screenEndedListener,
                   peerConnections, isVideoEnabled, isDeafened, currentChannel, remoteParticipants,
                   currentCallDetails, socketConnected, tasks, ringVars,
                   callInterfaceHidden>>
    /\ localEnv

\* variant of cameraStateEffect: the track is gated by the deafened flag
cameraStateEffect_gatedByDeafen(enabled) ==
    /\ isVideoEnabled' = enabled
    /\ localStream' = IF localStream.held
                        THEN [localStream EXCEPT !.video = (enabled /\ ~isDeafened)]
                        ELSE localStream
    /\ LET keys == SeqOfSet(DOMAIN peerConnections)
       IN sent' = IfConnected([i \in 1..Len(keys) |-> Msg("video-toggle", keys[i], OnOff(enabled))])

\* body of setCameraState(enabled)
cameraStateEffect(enabled) ==
    /\ isVideoEnabled' = enabled
    /\ localStream' = IF localStream.held
                        THEN [localStream EXCEPT !.video = enabled]
                        ELSE localStream
    /\ LET keys == SeqOfSet(DOMAIN peerConnections)
       IN sent' = IfConnected([i \in 1..Len(keys) |-> Msg("video-toggle", keys[i], OnOff(enabled))])

setCameraState(enabled) ==
    /\ cameraStateEffect(enabled)
    /\ last' = "setCameraState"
    /\ UNCHANGED <<inCall, orphanStreams, screenStream, screenEndedListener,
                   peerConnections, isAudioEnabled, isMuted, preferredMicEnabled,
                   isDeafened, currentChannel, remoteParticipants, currentCallDetails,
                   socketConnected,
                   tasks, ringVars, callInterfaceHidden>>
    /\ localEnv

toggleVideo ==
    /\ cameraStateEffect(~isVideoEnabled)
    /\ last' = "toggleVideo"
    /\ UNCHANGED <<inCall, orphanStreams, screenStream, screenEndedListener,
                   peerConnections, isAudioEnabled, isMuted, preferredMicEnabled,
                   isDeafened, currentChannel, remoteParticipants, currentCallDetails,
                   socketConnected,
                   tasks, ringVars, callInterfaceHidden>>
    /\ localEnv

setSpeakerState(enabled) ==
    /\ isDeafened' = ~enabled
    /\ IF ~enabled
         THEN micStateEffect(FALSE, TRUE, ~enabled)
         ELSE micStateEffect(preferredMicEnabled, FALSE, ~enabled)
    /\ sent' = <<>>
    /\ remoteParticipants' = VolumeSet(remoteParticipants, enabled)
    /\ last' = "setSpeakerState"
    /\ UNCHANGED <<inCall, orphanStreams, screenStream, screenEndedListener,
                   peerConnections, isVideoEnabled, currentChannel,
                   currentCallDetails, socketConnected, tasks, ringVars,
                   callInterfaceHidden>>
    /\ localEnv

\* ----------------------------------------------------- text channel (1020)
switchChannel(channelName) ==
    /\ currentChannel' = channelName
    /\ sent' = <<>>
    /\ last' = "switchChannel"
    /\ UNCHANGED <<inCall, mediaVars, peerConnections, deviceVars, currentCallDetails,
                   socketConnected, tasks, ringVars, callInterfaceHidden>>
    /\ localEnv

\* -------------------------------------------------- socket connection state
\* (the modelled relay serves a connection that stays up)
socketDisconnect ==
    /\ socketConnected
    /\ ~wellBehavedRelay
    /\ socketConnected' = FALSE
    /\ sent' = <<>>
    /\ last' = "disconnect"
    /\ UNCHANGED <<inCall, mediaVars, peerConnections, deviceVars, currentChannel,
                   remoteParticipants,
                   currentCallDetails, tasks, ringVars, callInterfaceHidden>>
    /\ localEnv

socketConnect ==
    /\ ~socketConnected
    /\ socketConnected' = TRUE
    /\ sent' = <<>>
    /\ last' = "connect"
    /\ UNCHANGED <<inCall, mediaVars, peerConnections, deviceVars, currentChannel,
                   remoteParticipants,
                   currentCallDetails, tasks, ringVars, callInterfaceHidden>>
    /\ localEnv

\* ------------------------------------------- createPeerConnection (1764-2069)
\* the session createPeerConnection builds: the tracks of the local stream
\* ls are attached as senders, and an initiator starts pc.createOffer();
\* ice is pc.iceConnectionState, restarts counts the calls of pc.restartIce()
NewSession(isInitiator, ls) ==
    [initiator |-> isInitiator,
     offer |-> IF isInitiator THEN "creating" ELSE "none",
     remote |-> FALSE,
     aud |-> IF ls.held THEN "local" ELSE "none",
     vid |-> IF ls.held THEN "cam" ELSE "none",
     ice |-> "new",
     restarts |-> 0,
     candApplied |-> 0,
     candQueued |-> 0,
     candLost |-> 0]

\* variant of createPeerConnection: a session that exists is replaced
createPeerConnection_replaces(pcs, remoteSocketId, isInitiator, ls) ==
    [p \in DOMAIN pcs \cup {remoteSocketId} |->
       IF p = remoteSocketId THEN NewSession(isInitiator, ls) ELSE pcs[p]]

\* peerConnections after createPeerConnection(remoteSocketId, isInitiator),
\* with ls the value of localStream at the call
createPeerConnection(pcs, remoteSocketId, isInitiator, ls) ==
    IF remoteSocketId \in DOMAIN pcs
      THEN pcs
      ELSE pcs @@ (remoteSocketId :> NewSession(isInitiator, ls))

\* the promise chain createOffer -> setLocalDescription -> emit('offer')
offerCreated(p) ==
    /\ p \in DOMAIN peerConnections
    /\ peerConnections[p].offer = "creating"
    /\ peerConnections' = [peerConnections EXCEPT ![p].offer = "sent"]
    /\ sent' = <<Msg("offer", p, "")>>
    /\ last' = "offerCreated"
    /\ UNCHANGED <<inCall, mediaVars, deviceVars, currentChannel, remoteParticipants,
                   currentCallDetails,
                   socketConnected, tasks, ringVars, callInterfaceHidden>>
    /\ localEnv

\* ------------------------------------------------- pc.ontrack (1832-1876)
\* a track of the remote description of the session to p arrives
onTrack(p) ==
    /\ p \in DOMAIN peerConnections
    /\ peerConnections[p].remote
    /\ remoteParticipants' = TrackRendered(remoteParticipants, p, isDeafened)
    /\ sent' = <<>>
    /\ last' = "ontrack"
    /\ UNCHANGED <<inCall, mediaVars, peerConnections, deviceVars, currentChannel,
                   currentCallDetails, socketConnected, tasks, ringVars,
                   callInterfaceHidden>>
    /\ localEnv

\* --------------------------------- pc.oniceconnectionstatechange (1818-1829)
\* the session to p turns 'connected': the handler only logs
iceConnected(p) ==
    /\ p \in DOMAIN peerConnections
    /\ peerConnections[p].remote
    /\ peerConnections[p].ice \in {"new", "checking"}
    /\ peerConnections' = [peerConnections EXCEPT ![p].ice = "connected"]
    /\ sent' = <<>>
    /\ last' = "ice.connected"
    /\ UNCHANGED <<inCall, mediaVars, deviceVars, currentChannel, remoteParticipants,
                   currentCallDetails,
                   socketConnected, tasks, ringVars, callInterfaceHidden>>
    /\ localEnv

\* the session to p turns 'failed': the handler calls pc.restartIce(), which
\* sends nothing (no negotiationneeded handler is registered)
iceFailed(p) ==
    /\ p \in DOMAIN peerConnections
    /\ peerConnections[p].ice \in {"checking", "connected"}
    /\ peerConnections[p].restarts < MaxRestarts
    /\ peerConnections' = [peerConnections EXCEPT ![p].ice = "failed",
                                                  ![p].restarts = @ + 1]
    /\ sent' = <<>>
    /\ last' = "ice.failed"
    /\ UNCHANGED <<inCall, mediaVars, deviceVars, currentChannel, remoteParticipants,
                   currentCallDetails,
                   socketConnected, tasks, ringVars, callInterfaceHidden>>
    /\ localEnv

\* the ICE agent of a failed session resumes its checks ('checking'): the
\* handler does nothing for this state
iceChecking(p) ==
    /\ p \in DOMAIN peerConnections
    /\ peerConnections[p].ice = "failed"
    /\ peerConnections' = [peerConnections EXCEPT ![p].ice = "checking"]
    /\ sent' = <<>>
    /\ last' = "ice.checking"
    /\ UNCHANGED <<inCall, mediaVars, deviceVars, currentChannel, remoteParticipants,
                   currentCallDetails,
                   socketConnected, tasks, ringVars, callInterfaceHidden>>
    /\ localEnv

\* variant of leaveVoiceChannelEffect: a forced leave keeps the sessions open
leaveVoiceChannelEffect_keepsSessions(force, pcs, ts, prefix) ==
    IF ~inCall
      THEN /\ peerConnections' = pcs
           /\ tasks' = ts
           /\ sent' = prefix
           /\ UNCHANGED <<inCall, mediaVars, deviceVars, callInterfaceHidden>>
      ELSE IF force
        THEN /\ inCall' = FALSE
             /\ localStream' = NoStream
             /\ orphanStreams' = orphanStreams
             /\ screenStream' = "null"
             /\ screenEndedListener' = FALSE
             /\ sent' = prefix \o IfConnected(<<Msg("leave-voice-channel", 0, currentChannel)>>)
             /\ peerConnections' = Stale(pcs)
             /\ tasks' = ts
             /\ callInterfaceHidden' = TRUE
             /\ isVideoEnabled' = TRUE
             /\ isAudioEnabled' = TRUE
             /\ isMuted' = FALSE
             /\ preferredMicEnabled' = TRUE
             /\ isDeafened' = FALSE
        ELSE /\ callInterfaceHidden' = TRUE
             /\ peerConnections' = pcs
             /\ tasks' = ts
             /\ sent' = prefix
             /\ UNCHANGED <<inCall, mediaVars, deviceVars>>

\* ----------------------------------------------- leaveVoiceChannel (1482-1523)
\* body of leaveVoiceChannel(force), run by a handler that has already
\* emitted prefix, holds the sessions pcs and leaves the pending tasks ts
leaveVoiceChannelEffect(force, pcs, ts, prefix) ==
    IF ~inCall
      THEN /\ peerConnections' = pcs
           /\ tasks' = ts
           /\ sent' = prefix
           /\ UNCHANGED <<inCall, mediaVars, deviceVars, callInterfaceHidden>>
      ELSE IF force
        THEN /\ inCall' = FALSE
             /\ localStream' = NoStream
             /\ orphanStreams' = orphanStreams
             /\ screenStream' = "null"
             /\ screenEndedListener' = FALSE
             /\ sent' = prefix \o IfConnected(<<Msg("leave-voice-channel", 0, currentChannel)>>)
             /\ peerConnections' = <<>>
             /\ tasks' = DropSessionTasks(ts, DOMAIN pcs)
             /\ callInterfaceHidden' = TRUE
             /\ isVideoEnabled' = TRUE
             /\ isAudioEnabled' = TRUE
             /\ isMuted' = FALSE
             /\ preferredMicEnabled' = TRUE
             /\ isDeafened' = FALSE
        ELSE /\ callInterfaceHidden' = TRUE
             /\ peerConnections' = pcs
             /\ tasks' = ts
             /\ sent' = prefix
             /\ UNCHANGED <<inCall, mediaVars, deviceVars>>

\* variant of leaveVoiceChannel: the force argument is not looked at
leaveVoiceChannel_alwaysForced(force) ==
    /\ leaveVoiceChannelEffect(TRUE, peerConnections, tasks, <<>>)
    /\ last' = IF ~inCall THEN "leaveVoiceChannel.idle"
               ELSE IF force THEN "leaveVoiceChannel(true)" ELSE "leaveVoiceChannel(false)"
    /\ remoteParticipants' = LeaveRendered(TRUE, remoteParticipants)
    /\ UNCHANGED <<currentChannel, currentCallDetails, socketConnected, ringVars>>
    /\ localEnv

\* leaveVoiceChannel(force) called on its own (logoutUser calls it unforced)
leaveVoiceChannel(force) ==
    /\ leaveVoiceChannelEffect(force, peerConnections, tasks, <<>>)
    /\ last' = IF ~inCall THEN "leaveVoiceChannel.idle"
               ELSE IF force THEN "leaveVoiceChannel(true)" ELSE "leaveVoiceChannel(false)"
    /\ remoteParticipants' = LeaveRendered(force, remoteParticipants)
    /\ UNCHANGED <<currentChannel, currentCallDetails, socketConnected, ringVars>>
    /\ localEnv

\* click on #closeCallBtn (1531-1542)
closeCall ==
    /\ LET keys == SeqOfSet(DOMAIN peerConnections)
           ends == IF currentCallDetails.defined
                     THEN IfConnected([i \in 1..Len(keys) |-> Msg("end-call", keys[i], "")])
                     ELSE <<>>
       IN leaveVoiceChannelEffect(TRUE, peerConnections, tasks, ends)
    /\ last' = "closeCall"
    /\ remoteParticipants' = LeaveRendered(TRUE, remoteParticipants)
    /\ UNCHANGED <<currentChannel, currentCallDetails, socketConnected, ringVars>>
    /\ localEnv

\* -------------------------------------------------- initiateCall (588-650)
\* initiateCall up to "await getUserMedia"
initiateCall(friendId, type) ==
    /\ CanSuspend
    /\ tasks' = Suspended(Task("initiateCall", friendId, type))
    /\ sent' = <<>>
    /\ last' = "initiateCall"
    /\ UNCHANGED <<inCall, mediaVars, peerConnections, deviceVars, currentChannel,
                   remoteParticipants,
                   currentCallDetails, socketConnected, ringVars, callInterfaceHidden>>
    /\ localEnv

\* getUserMedia resolved: the rest of the try block
initiateCallGranted(t) ==
    /\ t \in Pending("initiateCall")
    /\ CanAcquire
    /\ localStream' = [FreshStream EXCEPT !.video = (t.arg # "audio")]
    /\ orphanStreams' = LiveStreams
    /\ peerConnections' = Stale(peerConnections)
    /\ callInterfaceHidden' = FALSE
    /\ currentCallDetails' = [defined |-> TRUE, peer |-> t.peer, type |-> t.arg,
                              isInitiator |-> TRUE]
    /\ sent' = IfConnected(<<Msg("initiate-call", t.peer, t.arg)>>)
    /\ inCall' = TRUE
    /\ isVideoEnabled' = (t.arg = "video")
    /\ isAudioEnabled' = TRUE
    /\ tasks' = Resumed(t)
    /\ last' = "initiateCall.granted"
    /\ UNCHANGED <<screenStream, screenEndedListener, isMuted, preferredMicEnabled,
                   isDeafened, currentChannel, remoteParticipants, socketConnected, ringVars>>
    /\ localEnv

\* variant of initiateCallDenied: inCall is set before the media are asked for
initiateCallDenied_entersCall(t) ==
    /\ t \in Pending("initiateCall")
    /\ tasks' = Resumed(t)
    /\ inCall' = TRUE
    /\ sent' = <<>>
    /\ last' = "initiateCall.denied"
    /\ UNCHANGED <<mediaVars, peerConnections, deviceVars, currentChannel, remoteParticipants,
                   currentCallDetails, socketConnected, ringVars, callInterfaceHidden>>
    /\ localEnv

\* getUserMedia rejected: the catch block
initiateCallDenied(t) ==
    /\ t \in Pending("initiateCall")
    /\ tasks' = Resumed(t)
    /\ sent' = <<>>
    /\ last' = "initiateCall.denied"
    /\ UNCHANGED <<inCall, mediaVars, peerConnections, deviceVars, currentChannel,
                   remoteParticipants,
                   currentCallDetails, socketConnected, ringVars, callInterfaceHidden>>
    /\ localEnv

\* ------------------------------------- incoming call prompt (269-274, 653-684)
\* rejectCall(caller)
rejectCall(caller) == IfConnected(<<Msg("reject-call", caller, "")>>)

\* socket.on('incoming-call') -> showIncomingCall(from, type)
showIncomingCall(caller, type) ==
    /\ LET tm == [caller |-> caller, remaining |-> RingTimeout]
       IN /\ Cardinality(timers \cup {tm}) <= MaxTimers
          /\ timers' = timers \cup {tm}
    /\ incomingHidden' = FALSE
    /\ ringHandlers' = [defined |-> TRUE, caller |-> caller, type |-> type]
    /\ ringElapsed' = 0
    /\ sent' = <<>>
    /\ last' = "incoming-call"
    /\ UNCHANGED <<inCall, mediaVars, peerConnections, deviceVars, currentChannel,
                   remoteParticipants,
                   currentCallDetails, socketConnected, tasks, callInterfaceHidden>>

\* rejectBtn.onclick
rejectClick ==
    /\ ~incomingHidden
    /\ ringHandlers.defined
    /\ incomingHidden' = TRUE
    /\ ringElapsed' = 0
    /\ sent' = rejectCall(ringHandlers.caller)
    /\ last' = "rejectClick"
    /\ UNCHANGED <<inCall, mediaVars, peerConnections, deviceVars, currentChannel,
                   remoteParticipants,
                   currentCallDetails, socketConnected, tasks, ringHandlers, timers,
                   callInterfaceHidden>>
    /\ localEnv

\* the setTimeout callback of showIncomingCall, run when its 30 s are over
timerFire(tm) ==
    /\ tm \in timers
    /\ tm.remaining = 0
    /\ timers' = timers \ {tm}
    /\ IF ~incomingHidden
         THEN /\ incomingHidden' = TRUE
              /\ sent' = rejectCall(tm.caller)
         ELSE /\ incomingHidden' = incomingHidden
              /\ sent' = <<>>
    /\ ringElapsed' = 0
    /\ last' = IF ~incomingHidden THEN "timer.reject" ELSE "timer.idle"
    /\ UNCHANGED <<inCall, mediaVars, peerConnections, deviceVars, currentChannel,
                   remoteParticipants,
                   currentCallDetails, socketConnected, tasks, ringHandlers,
                   callInterfaceHidden>>
    /\ localEnv

\* TickLen seconds pass; a timer that is due runs before more time passes
Tick ==
    /\ timers # {}
    /\ \A tm \in timers : tm.remaining > 0
    /\ timers' = {[tm EXCEPT !.remaining = IF @ > TickLen THEN @ - TickLen ELSE 0] : tm \in timers}
    /\ ringElapsed' = IF incomingHidden THEN 0
                      ELSE IF ringElapsed + TickLen < RingTimeout
                             THEN ringElapsed + TickLen ELSE RingTimeout
    /\ sent' = <<>>
    /\ last' = "tick"
    /\ UNCHANGED <<inCall, mediaVars, peerConnections, deviceVars, currentChannel,
                   remoteParticipants,
                   currentCallDetails, socketConnected, tasks, incomingHidden,
                   ringHandlers, callInterfaceHidden>>
    /\ localEnv

\* ---------------------------------------------------- acceptCall (687-750)
\* acceptBtn.onclick: hides the prompt, runs acceptCall up to getUserMedia
acceptClick ==
    /\ ~incomingHidden
    /\ ringHandlers.defined
    /\ CanSuspend
    /\ incomingHidden' = TRUE
    /\ ringElapsed' = 0
    /\ tasks' = Suspended(Task("acceptCall", ringHandlers.caller, ringHandlers.type))
    /\ sent' = <<>>
    /\ last' = "acceptClick"
    /\ UNCHANGED <<inCall, mediaVars, peerConnections, deviceVars, currentChannel,
                   remoteParticipants,
                   currentCallDetails, socketConnected, ringHandlers, timers,
                   callInterfaceHidden>>
    /\ localEnv

acceptCallGranted(t) ==
    /\ t \in Pending("acceptCall")
    /\ CanAcquire
    /\ localStream' = [FreshStream EXCEPT !.video = (t.arg # "audio")]
    /\ orphanStreams' = LiveStreams
    /\ callInterfaceHidden' = FALSE
    /\ currentCallDetails' = [defined |-> TRUE, peer |-> t.peer, type |-> t.arg,
                              isInitiator |-> FALSE]
    /\ sent' = IfConnected(<<Msg("accept-call", t.peer, "")>>)
    /\ inCall' = TRUE
    /\ isVideoEnabled' = (t.arg = "video")
    /\ isAudioEnabled' = TRUE
    /\ peerConnections' = createPeerConnection(Stale(peerConnections), t.peer, FALSE, localStream')
    /\ tasks' = Resumed(t)
    /\ last' = "acceptCall.granted"
    /\ UNCHANGED <<screenStream, screenEndedListener, isMuted, preferredMicEnabled,
                   isDeafened, currentChannel, remoteParticipants, socketConnected, ringVars>>
    /\ localEnv

acceptCallDenied(t) ==
    /\ t \in Pending("acceptCall")
    /\ tasks' = Resumed(t)
    /\ sent' = <<>>
    /\ last' = "acceptCall.denied"
    /\ UNCHANGED <<inCall, mediaVars, peerConnections, deviceVars, currentChannel,
                   remoteParticipants,
                   currentCallDetails, socketConnected, ringVars, callInterfaceHidden>>
    /\ localEnv

\* ------------------------------------------ joinVoiceChannel (1406-1480)
\* joinVoiceChannel up to "await initializeMedia()"
joinVoiceChannel(channelName) ==
    /\ IF inCall
         THEN /\ UNCHANGED <<inCall, tasks>>
         ELSE /\ CanSuspend
              /\ inCall' = TRUE
              /\ tasks' = Suspended(Task("joinVoiceChannel", 0, channelName))
    /\ callInterfaceHidden' = FALSE
    /\ sent' = <<>>
    /\ last' = IF inCall THEN "joinVoiceChannel.already" ELSE "joinVoiceChannel"
    /\ UNCHANGED <<mediaVars, peerConnections, deviceVars, currentChannel, remoteParticipants,
                   currentCallDetails, socketConnected, ringVars>>
    /\ localEnv

\* initializeMedia resolved: the stream is kept, the join is announced
joinVoiceChannelGranted(t) ==
    /\ t \in Pending("joinVoiceChannel")
    /\ CanAcquire
    /\ localStream' = [FreshStream EXCEPT !.audio = ~(isMuted \/ isDeafened)]
    /\ orphanStreams' = LiveStreams
    /\ peerConnections' = Stale(peerConnections)
    /\ sent' = IfConnected(<<Msg("join-voice-channel", 0, t.arg)>>)
    /\ tasks' = Resumed(t)
    /\ last' = "joinVoiceChannel.granted"
    /\ UNCHANGED <<inCall, screenStream, screenEndedListener, deviceVars,
                   currentChannel, remoteParticipants, currentCallDetails, socketConnected,
                   ringVars,
                   callInterfaceHidden>>
    /\ localEnv

\* variant of joinVoiceChannelDenied: the catch block leaves unforced
joinVoiceChannelDenied_unforced(t) ==
    /\ t \in Pending("joinVoiceChannel")
    /\ leaveVoiceChannelEffect(FALSE, peerConnections, Resumed(t), <<>>)
    /\ last' = "joinVoiceChannel.denied"
    /\ remoteParticipants' = LeaveRendered(FALSE, remoteParticipants)
    /\ UNCHANGED <<currentChannel, currentCallDetails, socketConnected, ringVars>>
    /\ localEnv

\* initializeMedia threw: the catch block runs leaveVoiceChannel(true)
joinVoiceChannelDenied(t) ==
    /\ t \in Pending("joinVoiceChannel")
    /\ leaveVoiceChannelEffect(TRUE, peerConnections, Resumed(t), <<>>)
    /\ last' = "joinVoiceChannel.denied"
    /\ remoteParticipants' = LeaveRendered(TRUE, remoteParticipants)
    /\ UNCHANGED <<currentChannel, currentCallDetails, socketConnected, ringVars>>
    /\ localEnv

\* ------------------------------------------ toggleScreenShare (1565-1634)
\* variant of replaceVideoTrack: a session without a video sender gets one
replaceVideoTrack_addsSender(pcs, track) ==
    [p \in DOMAIN pcs |-> [pcs[p] EXCEPT !.vid = track]]

\* the sender.replaceTrack loop of toggleScreenShare over the sessions pcs
replaceVideoTrack(pcs, track) ==
    [p \in DOMAIN pcs |-> IF pcs[p].vid # "none"
                            THEN [pcs[p] EXCEPT !.vid = track]
                            ELSE pcs[p]]

\* the branch taken when screenStream is set: stop sharing
stopScreenShare ==
    IF ~localStream.held
      THEN \* localStream.getVideoTracks() throws after the tracks were stopped
           /\ screenStream' = "ended"
           /\ screenEndedListener' = FALSE
           /\ UNCHANGED <<peerConnections, localStream, orphanStreams>>
      ELSE /\ peerConnections' = replaceVideoTrack(peerConnections, "cam")
           /\ screenStream' = "null"
           /\ screenEndedListener' = FALSE
           /\ UNCHANGED <<localStream, orphanStreams>>

\* click on #toggleScreenBtn
toggleScreenShare ==
    /\ IF screenStream # "null"
         THEN /\ stopScreenShare
              /\ tasks' = tasks
         ELSE /\ CanSuspend
              /\ tasks' = Suspended(Task("toggleScreenShare", 0, ""))
              /\ UNCHANGED <<mediaVars, peerConnections>>
    /\ sent' = <<>>
    /\ last' = IF screenStream # "null" THEN "toggleScreenShare.stop" ELSE "toggleScreenShare"
    /\ UNCHANGED <<inCall, deviceVars, currentChannel, remoteParticipants, currentCallDetails,
                   socketConnected, ringVars, callInterfaceHidden>>
    /\ localEnv

\* getDisplayMedia resolved
toggleScreenShareGranted(t) ==
    /\ t \in Pending("toggleScreenShare")
    /\ screenStream' = "live"
    /\ peerConnections' = replaceVideoTrack(peerConnections, "screen")
    \* localStream.getAudioTracks() throws before the listener is added
    /\ screenEndedListener' = localStream.held
    /\ tasks' = Resumed(t)
    /\ sent' = <<>>
    /\ last' = "toggleScreenShare.granted"
    /\ UNCHANGED <<inCall, localStream, orphanStreams, deviceVars, currentChannel,
                   remoteParticipants,
                   currentCallDetails, socketConnected, ringVars, callInterfaceHidden>>
    /\ localEnv

\* getDisplayMedia rejected
toggleScreenShareDenied(t) ==
    /\ t \in Pending("toggleScreenShare")
    /\ tasks' = Resumed(t)
    /\ sent' = <<>>
    /\ last' = "toggleScreenShare.denied"
    /\ UNCHANGED <<inCall, mediaVars, peerConnections, deviceVars, currentChannel,
                   remoteParticipants,
                   currentCallDetails, socketConnected, ringVars, callInterfaceHidden>>
    /\ localEnv

\* the capture is ended from outside (browser or OS "stop sharing")
screenTrackEnded ==
    /\ screenStream = "live"
    /\ IF screenEndedListener
         THEN stopScreenShare
         ELSE /\ screenStream' = "ended"
              /\ UNCHANGED <<screenEndedListener, peerConnections, localStream, orphanStreams>>
    /\ sent' = <<>>
    /\ last' = "screenTrackEnded"
    /\ UNCHANGED <<inCall, deviceVars, currentChannel, remoteParticipants, currentCallDetails,
                   socketConnected, tasks, ringVars, callInterfaceHidden>>
    /\ localEnv

\* ------------------------------------------------ socket handlers (182-312)
InMsg(type, from, users, ctype) == [type |-> type, from |-> from, users |-> users, ctype |-> ctype]

\* variant of onUserJoinedVoice: the session is opened as responder
onUserJoinedVoice_asResponder(m) ==
    /\ peerConnections' = createPeerConnection(peerConnections, m.from, FALSE, localStream)
    /\ sent' = <<>>
    /\ last' = "user-joined-voice"
    /\ UNCHANGED <<inCall, mediaVars, deviceVars, currentChannel, remoteParticipants,
                   currentCallDetails,
                   socketConnected, tasks, ringVars, callInterfaceHidden>>

\* socket.on('user-joined-voice')
onUserJoinedVoice(m) ==
    /\ peerConnections' = createPeerConnection(peerConnections, m.from, TRUE, localStream)
    /\ sent' = <<>>
    /\ last' = "user-joined-voice"
    /\ UNCHANGED <<inCall, mediaVars, deviceVars, currentChannel, remoteParticipants,
                   currentCallDetails,
                   socketConnected, tasks, ringVars, callInterfaceHidden>>

\* socket.on('existing-voice-users')
onExistingVoiceUsers(m) ==
    /\ peerConnections' =
         [p \in DOMAIN peerConnections \cup m.users |->
            createPeerConnection(peerConnections, p, FALSE, localStream)[p]]
    /\ sent' = <<>>
    /\ last' = "existing-voice-users"
    /\ UNCHANGED <<inCall, mediaVars, deviceVars, currentChannel, remoteParticipants,
                   currentCallDetails,
                   socketConnected, tasks, ringVars, callInterfaceHidden>>

\* socket.on('user-left-voice')
onUserLeftVoice(m) ==
    /\ peerConnections' = Remove(peerConnections, {m.from})
    /\ tasks' = DropSessionTasks(tasks, {m.from} \cap DOMAIN peerConnections)
    /\ sent' = <<>>
    /\ remoteParticipants' = VideoRemoved(remoteParticipants, m.from)
    /\ last' = "user-left-voice"
    /\ UNCHANGED <<inCall, mediaVars, deviceVars, currentChannel, currentCallDetails,
                   socketConnected, ringVars, callInterfaceHidden>>

\* socket.on('offer') up to "await pc.setRemoteDescription"
onOffer(m) ==
    /\ CanSuspend
    /\ peerConnections' = createPeerConnection(peerConnections, m.from, FALSE, localStream)
    /\ tasks' = Suspended(Task("offer", m.from, ""))
    /\ sent' = <<>>
    /\ last' = "offer"
    /\ UNCHANGED <<inCall, mediaVars, deviceVars, currentChannel, remoteParticipants,
                   currentCallDetails,
                   socketConnected, ringVars, callInterfaceHidden>>

\* the offer was applied and the answer created: emit('answer')
offerAnswered(t) ==
    /\ t \in Pending("offer")
    /\ t.peer \in DOMAIN peerConnections
    /\ peerConnections' =
         [peerConnections EXCEPT
            ![t.peer].remote = TRUE,
            ![t.peer].candApplied = @ + peerConnections[t.peer].candQueued,
            ![t.peer].candQueued = 0]
    /\ sent' = <<Msg("answer", t.peer, "")>>
    /\ tasks' = Resumed(t)
    /\ last' = "offer.answered"
    /\ UNCHANGED <<inCall, mediaVars, deviceVars, currentChannel, remoteParticipants,
                   currentCallDetails,
                   socketConnected, ringVars, callInterfaceHidden>>
    /\ localEnv

\* setRemoteDescription / createAnswer rejected: the handler ends there
offerFailed(t) ==
    /\ t \in Pending("offer")
    /\ tasks' = Resumed(t)
    /\ peerConnections' =
         IF t.peer \in DOMAIN peerConnections
           THEN [peerConnections EXCEPT
                   ![t.peer].candLost = @ + peerConnections[t.peer].candQueued,
                   ![t.peer].candQueued = 0]
           ELSE peerConnections
    /\ sent' = <<>>
    /\ last' = "offer.failed"
    /\ UNCHANGED <<inCall, mediaVars, deviceVars, currentChannel, remoteParticipants,
                   currentCallDetails, socketConnected, ringVars, callInterfaceHidden>>
    /\ localEnv

\* variant of onAnswer: the answer is applied to any session of the sender
onAnswer_anySession(m) ==
    /\ peerConnections' =
         IF m.from \in DOMAIN peerConnections
           THEN [peerConnections EXCEPT ![m.from].remote = TRUE]
           ELSE peerConnections
    /\ sent' = <<>>
    /\ last' = "answer"
    /\ UNCHANGED <<inCall, mediaVars, deviceVars, currentChannel, remoteParticipants,
                   currentCallDetails,
                   socketConnected, tasks, ringVars, callInterfaceHidden>>

\* socket.on('answer'): setRemoteDescription(answer) succeeds only on a
\* session that has sent its offer and has no remote description yet
onAnswer(m) ==
    /\ peerConnections' =
         IF /\ m.from \in DOMAIN peerConnections
            /\ peerConnections[m.from].offer = "sent"
            /\ ~peerConnections[m.from].remote
           THEN [peerConnections EXCEPT ![m.from].remote = TRUE]
           ELSE peerConnections
    /\ sent' = <<>>
    /\ last' = "answer"
    /\ UNCHANGED <<inCall, mediaVars, deviceVars, currentChannel, remoteParticipants,
                   currentCallDetails,
                   socketConnected, tasks, ringVars, callInterfaceHidden>>

\* candidates of session s that have arrived
CandsSeen(s) == s.candApplied + s.candQueued + s.candLost

\* socket.on('ice-candidate'): addIceCandidate is applied when the session has
\* a remote description, waits behind a setRemoteDescription in progress, and
\* is rejected (the candidate is gone) when there is neither
onIceCandidate(m) ==
    /\ peerConnections' =
         IF m.from \in DOMAIN peerConnections /\ m.ctype # "null"
           THEN IF peerConnections[m.from].remote
                  THEN [peerConnections EXCEPT ![m.from].candApplied = @ + 1]
                ELSE IF \E t \in Pending("offer") : t.peer = m.from
                  THEN [peerConnections EXCEPT ![m.from].candQueued = @ + 1]
                ELSE [peerConnections EXCEPT ![m.from].candLost = @ + 1]
           ELSE peerConnections
    /\ m.from \in DOMAIN peerConnections => CandsSeen(peerConnections[m.from]) < MaxCands
    /\ sent' = <<>>
    /\ last' = "ice-candidate"
    /\ UNCHANGED <<inCall, mediaVars, deviceVars, currentChannel, remoteParticipants,
                   currentCallDetails,
                   socketConnected, tasks, ringVars, callInterfaceHidden>>

\* variant of onCallAccepted: the session is opened as responder
onCallAccepted_asResponder(m) ==
    /\ peerConnections' = createPeerConnection(peerConnections, m.from, FALSE, localStream)
    /\ sent' = <<>>
    /\ last' = "call-accepted"
    /\ UNCHANGED <<inCall, mediaVars, deviceVars, currentChannel, remoteParticipants,
                   currentCallDetails,
                   socketConnected, tasks, ringVars, callInterfaceHidden>>

\* socket.on('call-accepted')
onCallAccepted(m) ==
    /\ peerConnections' = createPeerConnection(peerConnections, m.from, TRUE, localStream)
    /\ sent' = <<>>
    /\ last' = "call-accepted"
    /\ UNCHANGED <<inCall, mediaVars, deviceVars, currentChannel, remoteParticipants,
                   currentCallDetails,
                   socketConnected, tasks, ringVars, callInterfaceHidden>>

\* variant of onCallRejected: the local stream is kept
onCallRejected_keepsStream(m) ==
    /\ callInterfaceHidden' = TRUE
    /\ inCall' = FALSE
    /\ sent' = <<>>
    /\ last' = "call-rejected"
    /\ UNCHANGED <<mediaVars, peerConnections, deviceVars,
                   currentChannel, remoteParticipants, currentCallDetails, socketConnected,
                   tasks, ringVars>>

\* socket.on('call-rejected')
onCallRejected(m) ==
    /\ callInterfaceHidden' = TRUE
    /\ localStream' = NoStream
    /\ peerConnections' = Stale(peerConnections)
    /\ inCall' = FALSE
    /\ sent' = <<>>
    /\ last' = "call-rejected"
    /\ UNCHANGED <<orphanStreams, screenStream, screenEndedListener, deviceVars,
                   currentChannel, remoteParticipants, currentCallDetails, socketConnected,
                   tasks, ringVars>>

\* variant of onCallEnded: the session is closed and nothing else is done
onCallEnded_onlyClosesSession(m) ==
    /\ peerConnections' = Remove(peerConnections, {m.from})
    /\ tasks' = DropSessionTasks(tasks, {m.from} \cap DOMAIN peerConnections)
    /\ sent' = <<>>
    /\ remoteParticipants' = VideoRemoved(remoteParticipants, m.from)
    /\ last' = "call-ended"
    /\ UNCHANGED <<inCall, mediaVars, deviceVars, callInterfaceHidden,
                   currentChannel, currentCallDetails, socketConnected, ringVars>>

\* socket.on('call-ended')
onCallEnded(m) ==
    /\ LET pcs == Remove(peerConnections, {m.from})
           ts == DropSessionTasks(tasks, {m.from} \cap DOMAIN peerConnections)
       IN IF DOMAIN pcs = {}
            THEN leaveVoiceChannelEffect(TRUE, pcs, ts, <<>>)
            ELSE /\ peerConnections' = pcs
                 /\ tasks' = ts
                 /\ sent' = <<>>
                 /\ UNCHANGED <<inCall, mediaVars, deviceVars, callInterfaceHidden>>
    /\ remoteParticipants' =
         LeaveRendered(DOMAIN Remove(peerConnections, {m.from}) = {},
                       VideoRemoved(remoteParticipants, m.from))
    /\ last' = "call-ended"
    /\ UNCHANGED <<currentChannel, currentCallDetails, socketConnected, ringVars>>

\* the handler registered for message m
socketOn(m) ==
    \/ m.type = "user-joined-voice" /\ onUserJoinedVoice(m)
    \/ m.type = "existing-voice-users" /\ onExistingVoiceUsers(m)
    \/ m.type = "user-left-voice" /\ onUserLeftVoice(m)
    \/ m.type = "offer" /\ onOffer(m)
    \/ m.type = "answer" /\ onAnswer(m)
    \/ m.type = "ice-candidate" /\ onIceCandidate(m)
    \/ m.type = "incoming-call" /\ showIncomingCall(m.from, m.ctype)
    \/ m.type = "call-accepted" /\ onCallAccepted(m)
    \/ m.type = "call-rejected" /\ onCallRejected(m)
    \/ m.type = "call-ended" /\ onCallEnded(m)

\* the messages of the given types, from every sender and with every payload
MsgsOf(types) ==
    ({InMsg(ty, p, {}, "") : ty \in {"user-joined-voice", "user-left-voice", "offer", "answer",
                                     "call-accepted", "call-rejected", "call-ended"} \cap types,
                             p \in Peers})
      \cup (IF "existing-voice-users" \in types
              THEN {InMsg("existing-voice-users", 0, us, "") : us \in SUBSET Peers} ELSE {})
      \cup (IF "ice-candidate" \in types
              THEN {InMsg("ice-candidate", p, {}, c) : p \in Peers, c \in {"candidate", "null"}}
              ELSE {})
      \cup (IF "incoming-call" \in types
              THEN {InMsg("incoming-call", p, {}, ty) : p \in Peers, ty \in CallTypes} ELSE {})

\* a message of one of the given types arrives (the relay is not modelled:
\* any party may send anything at any time) and its handler runs
receive(types) ==
    /\ ~wellBehavedRelay
    /\ \E m \in MsgsOf(types) : socketOn(m)
    /\ stale' = staleAfter
    /\ UNCHANGED <<wellBehavedRelay, relayMembers, relayLocalIn, relayOwes, down, up, remotePeer>>

\* a message sent for a session that was closed since arrives and its handler runs
receiveStale ==
    /\ ~wellBehavedRelay
    /\ stale.tracked
    /\ \E s \in stale.msgs :
         /\ socketOn(InMsg(s[2], s[1], {}, "candidate"))
         /\ stale' = [stale EXCEPT !.msgs = @ \ {s}]
    /\ UNCHANGED <<wellBehavedRelay, relayMembers, relayLocalIn, relayOwes, down, up, remotePeer>>

\* the oldest message the modelled relay has sent arrives and its handler runs
deliver ==
    /\ wellBehavedRelay
    /\ down # <<>>
    /\ socketOn(Head(down))
    /\ down' = Tail(down)
    /\ up' = up \o SelectSeq(sent', Relayed)
    /\ Len(up') <= MaxUp
    /\ stale' = staleAfter
    /\ UNCHANGED <<wellBehavedRelay, relayMembers, relayLocalIn, relayOwes, remotePeer>>

\* ------------------------------------------------- the relay and its peers
localVars == <<inCall, mediaVars, peerConnections, deviceVars, currentChannel,
               remoteParticipants,
               currentCallDetails, socketConnected, tasks, ringVars,
               callInterfaceHidden, sent, last>>

\* the relay handles the next announcement of the local process: a join is
\* answered with the roster and told to the members, a leave removes it
relayTake ==
    /\ wellBehavedRelay
    /\ remotePeer.role = "none"
    /\ up # <<>>
    /\ IF Head(up).type = "join-voice-channel"
         THEN /\ Len(down) < MaxDown
              /\ relayLocalIn' = TRUE
              /\ relayOwes' = relayMembers
              /\ down' = Append(down, InMsg("existing-voice-users", 0, relayMembers, ""))
         ELSE /\ relayLocalIn' = FALSE
              /\ relayOwes' = {}
              /\ down' = down
    /\ up' = Tail(up)
    /\ UNCHANGED <<localVars, wellBehavedRelay, relayMembers, stale, remotePeer>>

\* a remote party joins the channel
remoteJoin(p) ==
    /\ wellBehavedRelay
    /\ p \notin relayMembers
    /\ relayMembers' = relayMembers \cup {p}
    /\ IF relayLocalIn
         THEN /\ Len(down) < MaxDown
              /\ down' = Append(down, InMsg("user-joined-voice", p, {}, ""))
         ELSE down' = down
    /\ UNCHANGED <<localVars, wellBehavedRelay, relayLocalIn, relayOwes, up, stale, remotePeer>>

\* a remote member leaves the channel
remoteLeave(p) ==
    /\ wellBehavedRelay
    /\ p \in relayMembers
    /\ relayMembers' = relayMembers \ {p}
    /\ relayOwes' = relayOwes \ {p}
    /\ IF relayLocalIn
         THEN /\ Len(down) < MaxDown
              /\ down' = Append(down, InMsg("user-left-voice", p, {}, ""))
         ELSE down' = down
    /\ UNCHANGED <<localVars, wellBehavedRelay, relayLocalIn, up, stale, remotePeer>>

\* a member that was told of the local join sends its offer
remoteOffer(p) ==
    /\ wellBehavedRelay
    /\ p \in relayOwes
    /\ Len(down) < MaxDown
    /\ down' = Append(down, InMsg("offer", p, {}, ""))
    /\ relayOwes' = relayOwes \ {p}
    /\ UNCHANGED <<localVars, wellBehavedRelay, relayMembers, relayLocalIn, up, stale, remotePeer>>

\* ------------------------------------- the second process of a direct call
\* (the same program, followed through the steps of one direct call)

\* the second process calls the local one: initiateCall with media granted;
\* the relay turns its initiate-call into incoming-call
remoteInitiate ==
    /\ wellBehavedRelay
    /\ remotePeer.role = "caller"
    /\ remotePeer.phase = "idle"
    /\ Len(down) < MaxDown
    /\ remotePeer' = [remotePeer EXCEPT !.phase = "calling"]
    /\ down' = Append(down, InMsg("incoming-call", remotePeer.id, {}, remotePeer.ctype))
    /\ UNCHANGED <<localVars, wellBehavedRelay, relayMembers, relayLocalIn, relayOwes,
                   up, stale>>

\* the second process accepts the ringing call: acceptCall with media
\* granted opens its responder session; the relay turns its accept-call
\* into call-accepted
remoteAccept ==
    /\ wellBehavedRelay
    /\ remotePeer.role = "callee"
    /\ remotePeer.phase = "ringing"
    /\ Len(down) < MaxDown
    /\ remotePeer' = [remotePeer EXCEPT
                        !.phase = "active",
                        !.session = IF @ = "none" THEN "responder" ELSE @]
    /\ down' = Append(down, InMsg("call-accepted", remotePeer.id, {}, ""))
    /\ UNCHANGED <<localVars, wellBehavedRelay, relayMembers, relayLocalIn, relayOwes,
                   up, stale>>

\* the second process after its handler of the relayed message m ran to the
\* end of its promise chain
remoteOn(m) ==
    IF m.type = "initiate-call"
      THEN IF remotePeer.role = "callee" /\ remotePeer.phase = "idle"
             THEN [remotePeer EXCEPT !.phase = "ringing"]
             ELSE remotePeer
    ELSE IF m.type = "accept-call"
      THEN IF remotePeer.session = "none"
             THEN [remotePeer EXCEPT !.session = "initiator", !.phase = "active",
                                     !.offersOut = @ + 1]
             ELSE remotePeer
    ELSE IF m.type = "offer"
      THEN [remotePeer EXCEPT
              !.session = IF @ = "none" THEN "responder" ELSE @,
              !.answered = TRUE,
              !.offersIn = @ + 1,
              !.answersOut = @ + 1]
    ELSE IF m.type = "answer"
      THEN [remotePeer EXCEPT
              !.answered = @ \/ remotePeer.session = "initiator",
              !.answersIn = @ + 1]
    ELSE remotePeer

\* what the second process emits in that handler, as the relay hands it on
remoteEmits(m) ==
    IF m.type = "accept-call" /\ remotePeer.session = "none"
      THEN <<InMsg("offer", remotePeer.id, {}, "")>>
    ELSE IF m.type = "offer"
      THEN <<InMsg("answer", remotePeer.id, {}, "")>>
    ELSE <<>>

\* the relay hands the oldest message of the local process to the second
\* process, whose handler runs
remoteTake ==
    /\ wellBehavedRelay
    /\ remotePeer.role \in {"caller", "callee"}
    /\ up # <<>>
    /\ remotePeer.offersIn < MaxSignals
    /\ remotePeer.answersIn < MaxSignals
    /\ remotePeer' = remoteOn(Head(up))
    /\ down' = down \o remoteEmits(Head(up))
    /\ Len(down') <= MaxDown
    /\ up' = Tail(up)
    /\ UNCHANGED <<localVars, wellBehavedRelay, relayMembers, relayLocalIn, relayOwes,
                   stale>>

\* ------------------------------- the second process as a voice member
\* (the same program; its connection to the relay has no delay, its
\* session is the one it holds toward the local process: "none",
\* "responder", "creating" while its createOffer runs, "initiator" once its
\* offer is sent)

\* the second process joins the channel with media granted: the relay sends
\* it the roster and tells the local process when that is a member
memberJoin ==
    /\ wellBehavedRelay
    /\ remotePeer.role = "member"
    /\ remotePeer.phase = "idle"
    /\ relayMembers' = relayMembers \cup {remotePeer.id}
    /\ remotePeer' = [remotePeer EXCEPT
                        !.phase = "joined",
                        !.session = IF relayLocalIn /\ @ = "none" THEN "responder" ELSE @]
    /\ IF relayLocalIn
         THEN /\ Len(down) < MaxDown
              /\ down' = Append(down, InMsg("user-joined-voice", remotePeer.id, {}, ""))
         ELSE down' = down
    /\ UNCHANGED <<localVars, wellBehavedRelay, relayLocalIn, relayOwes, up, stale>>

\* the second process leaves the channel: leaveVoiceChannel(true) closes its
\* session, the relay tells the local process when that is a member
memberLeave ==
    /\ wellBehavedRelay
    /\ remotePeer.role = "member"
    /\ remotePeer.phase = "joined"
    /\ relayMembers' = relayMembers \ {remotePeer.id}
    /\ remotePeer' = [remotePeer EXCEPT !.phase = "idle", !.session = "none",
                                        !.answered = FALSE]
    /\ IF relayLocalIn
         THEN /\ Len(down) < MaxDown
              /\ down' = Append(down, InMsg("user-left-voice", remotePeer.id, {}, ""))
         ELSE down' = down
    /\ UNCHANGED <<localVars, wellBehavedRelay, relayLocalIn, relayOwes, up, stale>>

\* the createOffer chain of the second process settles: its offer is sent
memberOffer ==
    /\ wellBehavedRelay
    /\ remotePeer.role = "member"
    /\ remotePeer.session = "creating"
    /\ Len(down) < MaxDown
    /\ remotePeer' = [remotePeer EXCEPT !.session = "initiator"]
    /\ down' = Append(down, InMsg("offer", remotePeer.id, {}, ""))
    /\ UNCHANGED <<localVars, wellBehavedRelay, relayMembers, relayLocalIn, relayOwes,
                   up, stale>>

\* the relay handles the oldest message of the local process: a join is
\* answered with the roster and told to the second process if it is a
\* member, a leave of a member is told to it, an offer or answer is handed
\* to it; the handler of the second process runs.  An offer that meets a
\* session with an offer of its own is answered or fails, as the browser
\* decides.
memberTake ==
    /\ wellBehavedRelay
    /\ remotePeer.role = "member"
    /\ up # <<>>
    /\ LET m == Head(up)
           told == remotePeer.id \in relayMembers
       IN IF m.type = "join-voice-channel"
            THEN /\ Len(down) < MaxDown
                 /\ relayLocalIn' = TRUE
                 /\ down' = Append(down, InMsg("existing-voice-users", 0, relayMembers, ""))
                 /\ remotePeer' = [remotePeer EXCEPT
                                     !.session = IF told /\ @ = "none" THEN "creating" ELSE @]
          ELSE IF m.type = "leave-voice-channel"
            THEN /\ relayLocalIn' = FALSE
                 /\ down' = down
                 /\ remotePeer' = IF told /\ relayLocalIn
                                    THEN [remotePeer EXCEPT !.session = "none",
                                                            !.answered = FALSE]
                                    ELSE remotePeer
          ELSE IF m.type = "offer"
            THEN /\ relayLocalIn' = relayLocalIn
                 /\ \E ok \in IF remotePeer.session \in {"creating", "initiator"}
                                 THEN BOOLEAN ELSE {TRUE} :
                       /\ remotePeer' = [remotePeer EXCEPT
                                           !.session = IF @ = "none" THEN "responder" ELSE @,
                                           !.answered = @ \/ ok]
                       /\ down' = IF ok
                                    THEN Append(down, InMsg("answer", remotePeer.id, {}, ""))
                                    ELSE down
                 /\ Len(down') <= MaxDown
          ELSE /\ relayLocalIn' = relayLocalIn
               /\ down' = down
               /\ remotePeer' = [remotePeer EXCEPT
                                   !.answered = @ \/ remotePeer.session = "initiator"]
    /\ up' = Tail(up)
    /\ UNCHANGED <<localVars, wellBehavedRelay, relayMembers, relayOwes, stale>>

\* ------------------------------------------------------------ specification
DeviceActions ==
    \/ \E enabled \in BOOLEAN : setMicrophoneState(enabled)
    \/ toggleAudio
    \/ \E enabled \in BOOLEAN : setCameraState(enabled)
    \/ toggleVideo
    \/ \E enabled \in BOOLEAN : setSpeakerState(enabled)

ConnectionActions ==
    \/ socketDisconnect
    \/ socketConnect

InitiateActions ==
    \/ \E p \in Peers, ty \in CallTypes : initiateCall(p, ty)
    \/ \E t \in Pending("initiateCall") : initiateCallGranted(t)
    \/ \E t \in Pending("initiateCall") : initiateCallDenied(t)

PromptActions ==
    \/ rejectClick
    \/ acceptClick
    \/ \E t \in Pending("acceptCall") : acceptCallGranted(t)
    \/ \E t \in Pending("acceptCall") : acceptCallDenied(t)

TimeActions ==
    \/ \E tm \in timers : timerFire(tm)
    \/ Tick

JoinActions ==
    \/ \E c \in VoiceChannels : joinVoiceChannel(c)
    \/ \E t \in Pending("joinVoiceChannel") : joinVoiceChannelGranted(t)
    \/ \E t \in Pending("joinVoiceChannel") : joinVoiceChannelDenied(t)

ScreenActions ==
    \/ toggleScreenShare
    \/ \E t \in Pending("toggleScreenShare") : toggleScreenShareGranted(t)
    \/ \E t \in Pending("toggleScreenShare") : toggleScreenShareDenied(t)
    \/ screenTrackEnded

SessionActions ==
    \/ \E p \in Peers : offerCreated(p)
    \/ \E t \in Pending("offer") : offerAnswered(t)
    \/ \E t \in Pending("offer") : offerFailed(t)

RelayActions ==
    \/ relayTake
    \/ \E p \in Peers : remoteJoin(p)
    \/ \E p \in Peers : remoteLeave(p)
    \/ \E p \in Peers : remoteOffer(p)
    \/ deliver

InitRelay == Init /\ wellBehavedRelay /\ ~stale.tracked /\ remotePeer = NoRemote

InitFree == Init /\ ~wellBehavedRelay /\ ~stale.tracked /\ remotePeer = NoRemote

\* a direct call with a second process, served by the modelled relay
InitDirect ==
    Init /\ wellBehavedRelay /\ ~stale.tracked /\ remotePeer.role \in {"caller", "callee"}

\* a voice channel with a second process as its other member, served by the
\* modelled relay
InitMember == Init /\ wellBehavedRelay /\ ~stale.tracked /\ remotePeer.role = "member"

\* any message may arrive, and messages of closed sessions are followed
InitStale == Init /\ ~wellBehavedRelay /\ stale.tracked /\ remotePeer = NoRemote

\* a voice channel served by the modelled relay
NextVoice ==
    \/ JoinActions
    \/ closeCall
    \/ SessionActions
    \/ RelayActions

SpecVoice == InitRelay /\ [][NextVoice]_vars

\* the mesh handlers against an arbitrary sender
NextMesh ==
    \/ JoinActions
    \/ closeCall
    \/ \E p \in Peers : offerCreated(p)
    \/ receive({"user-joined-voice", "existing-voice-users", "user-left-voice"})

SpecMesh == InitFree /\ [][NextMesh]_vars

EndActions ==
    \/ \E force \in BOOLEAN : leaveVoiceChannel(force)
    \/ closeCall

\* device controls around direct calls and voice channels
NextDevice ==
    \/ DeviceActions
    \/ InitiateActions
    \/ JoinActions
    \/ closeCall
    \/ receive({"call-rejected"})

SpecDevice == InitFree /\ [][NextDevice]_vars

\* joining and leaving a voice channel over a connection that may drop
NextLeave ==
    \/ JoinActions
    \/ EndActions
    \/ ConnectionActions
    \/ ScreenActions
    \/ \E enabled \in BOOLEAN : setSpeakerState(enabled)
    \/ receive({"existing-voice-users"})

SpecLeave == InitFree /\ [][NextLeave]_vars

\* the incoming call prompt and its timers
NextRing ==
    \/ PromptActions
    \/ TimeActions
    \/ closeCall
    \/ receive({"incoming-call"})

SpecRing == InitFree /\ [][NextRing]_vars

\* an incoming-call that reaches a process that is neither ringing nor in a call
incomingWhenIdle ==
    /\ incomingHidden
    /\ ~inCall
    /\ receive({"incoming-call"})

\* the prompt and its timers when calls arrive one at a time
NextRingIdle ==
    \/ PromptActions
    \/ TimeActions
    \/ closeCall
    \/ incomingWhenIdle

SpecRingIdle == InitFree /\ [][NextRingIdle]_vars

\* an outgoing direct call
NextCall ==
    \/ InitiateActions
    \/ closeCall
    \/ ConnectionActions
    \/ receive({"call-accepted", "call-rejected"})

SpecCall == InitFree /\ [][NextCall]_vars

\* a direct call that is ended by either side
NextEnd ==
    \/ InitiateActions
    \/ closeCall
    \/ toggleAudio
    \/ \E enabled \in BOOLEAN : setSpeakerState(enabled)
    \/ receive({"call-accepted", "call-ended"})

SpecEnd == InitFree /\ [][NextEnd]_vars

IceActions ==
    \/ \E p \in Peers : iceConnected(p)
    \/ \E p \in Peers : iceFailed(p)
    \/ \E p \in Peers : iceChecking(p)

\* a direct call whose session loses its connectivity
NextIce ==
    \/ InitiateActions
    \/ \E p \in Peers : offerCreated(p)
    \/ IceActions
    \/ closeCall
    \/ receive({"call-accepted", "answer"})

SpecIce == InitFree /\ [][NextIce]_vars

\* what the browser does on its own happens eventually: promises settle and
\* the connectivity of a session with both descriptions is established
FairIce ==
    /\ \A p \in Peers : WF_vars(offerCreated(p))
    /\ \A p \in Peers : WF_vars(iceConnected(p))
    /\ WF_vars(\E t \in Pending("initiateCall") : initiateCallGranted(t) \/ initiateCallDenied(t))

SpecIceFair == SpecIce /\ FairIce

\* offers and answers from arbitrary senders
NextAnswer ==
    \/ SessionActions
    \/ receive({"user-joined-voice", "user-left-voice", "offer", "answer"})

SpecAnswer == InitFree /\ [][NextAnswer]_vars

\* every handler that opens sessions, against arbitrary senders
NextOpen ==
    \/ SessionActions
    \/ receive({"user-joined-voice", "existing-voice-users", "user-left-voice",
                "call-accepted", "offer"})

SpecOpen == InitFree /\ [][NextOpen]_vars

\* screen sharing in a voice channel whose members come and go
NextShare ==
    \/ JoinActions
    \/ ScreenActions
    \/ closeCall
    \/ receive({"user-joined-voice", "existing-voice-users", "user-left-voice"})

SpecShare == InitFree /\ [][NextShare]_vars

\* candidates arriving around the offer/answer exchange of voice sessions
NextCandidate ==
    \/ SessionActions
    \/ receive({"user-joined-voice", "existing-voice-users", "offer", "answer", "ice-candidate"})

SpecCandidate == InitFree /\ [][NextCandidate]_vars

\* voice sessions that are closed and reopened while old messages travel
NextStale ==
    \/ SessionActions
    \/ receive({"user-joined-voice", "user-left-voice", "offer", "answer"})
    \/ receiveStale

SpecStale == InitStale /\ [][NextStale]_vars

\* the user starts a call from a process that is in none
initiateWhenIdle ==
    /\ ~inCall
    /\ Pending("initiateCall") = {}
    /\ \E p \in Peers, ty \in CallTypes : initiateCall(p, ty)

\* one direct call between the local process and a second one, each in
\* either role, with media granted on both sides
NextDirect ==
    \/ initiateWhenIdle
    \/ \E t \in Pending("initiateCall") : initiateCallGranted(t)
    \/ acceptClick
    \/ \E t \in Pending("acceptCall") : acceptCallGranted(t)
    \/ \E p \in Peers : offerCreated(p)
    \/ \E t \in Pending("offer") : offerAnswered(t)
    \/ TimeActions
    \/ deliver
    \/ remoteInitiate
    \/ remoteAccept
    \/ remoteTake

SpecDirect == InitDirect /\ [][NextDirect]_vars

\* promises settle and the relay delivers every message
FairDirect ==
    /\ WF_vars(\E t \in Pending("initiateCall") : initiateCallGranted(t))
    /\ WF_vars(\E t \in Pending("acceptCall") : acceptCallGranted(t))
    /\ WF_vars(\E p \in Peers : offerCreated(p))
    /\ WF_vars(\E t \in Pending("offer") : offerAnswered(t))
    /\ WF_vars(deliver)
    /\ WF_vars(remoteTake)

SpecDirectFair == SpecDirect /\ FairDirect

\* #toggleScreenBtn is part of #callInterface: it takes clicks while the
\* interface is shown
screenClick ==
    /\ ~callInterfaceHidden
    /\ toggleScreenShare

\* screen sharing from the call interface of a voice channel
NextShareUI ==
    \/ JoinActions
    \/ screenClick
    \/ \E t \in Pending("toggleScreenShare") : toggleScreenShareGranted(t)
    \/ \E t \in Pending("toggleScreenShare") : toggleScreenShareDenied(t)
    \/ screenTrackEnded
    \/ toggleVideo
    \/ closeCall
    \/ receive({"user-joined-voice", "user-left-voice"})

SpecShareUI == InitFree /\ [][NextShareUI]_vars

\* screen sharing over sessions in every stage of their negotiation
NextReplace ==
    \/ JoinActions
    \/ ScreenActions
    \/ \E p \in Peers : offerCreated(p)
    \/ receive({"user-joined-voice", "existing-voice-users"})

SpecReplace == InitFree /\ [][NextReplace]_vars

\* the camera and speaker settings in a voice channel whose members come
\* and go, over a connection that drops and returns
NextCamera ==
    \/ JoinActions
    \/ \E enabled \in BOOLEAN : setCameraState(enabled)
    \/ \E enabled \in BOOLEAN : setSpeakerState(enabled)
    \/ ConnectionActions
    \/ receive({"user-joined-voice", "user-left-voice"})

SpecCamera == InitFree /\ [][NextCamera]_vars

\* the microphone and speaker controls in a voice channel with rendered peers
NextDeafen ==
    \/ JoinActions
    \/ \E enabled \in BOOLEAN : setMicrophoneState(enabled)
    \/ toggleAudio
    \/ \E enabled \in BOOLEAN : setSpeakerState(enabled)
    \/ \E t \in Pending("offer") : offerAnswered(t)
    \/ \E p \in Peers : onTrack(p)
    \/ receive({"offer", "user-left-voice"})

SpecDeafen == InitFree /\ [][NextDeafen]_vars

\* remote media rendered for voice members that come, leave and come back
NextRender ==
    \/ \E t \in Pending("offer") : offerAnswered(t)
    \/ \E p \in Peers : onTrack(p)
    \/ receive({"offer", "user-left-voice"})

SpecRender == InitFree /\ [][NextRender]_vars

\* a direct call while other parties signal too
NextThird ==
    \/ InitiateActions
    \/ closeCall
    \/ SessionActions
    \/ receive({"call-accepted", "offer", "call-ended"})

SpecThird == InitFree /\ [][NextThird]_vars

\* call-control messages that reach a process in a voice channel or in none
NextControl ==
    \/ JoinActions
    \/ closeCall
    \/ receive({"call-accepted", "call-rejected", "call-ended"})

SpecControl == InitFree /\ [][NextControl]_vars

\* a voice channel shared with a second process, both coming and going
NextGlare ==
    \/ JoinActions
    \/ closeCall
    \/ SessionActions
    \/ deliver
    \/ memberJoin
    \/ memberLeave
    \/ memberOffer
    \/ memberTake

SpecGlare == InitMember /\ [][NextGlare]_vars

\* calls started and accepted by a process that may be in a call or channel
NextBusy ==
    \/ InitiateActions
    \/ PromptActions
    \/ JoinActions
    \/ closeCall
    \/ receive({"incoming-call"})

SpecBusy == InitFree /\ [][NextBusy]_vars

\* ------------------------------------------------------------------ claims
\* everything the relay and the local process sent has been handled
RelayQuiescent == down = <<>> /\ up = <<>>

\* C1: served by a well-behaved relay, once every join and leave has been
\* delivered, the number of open sessions is the number of other members of
\* the channel, and it is zero once the process has left the channel.
C1_SessionsEqualMembership ==
    (wellBehavedRelay /\ RelayQuiescent) =>
        /\ (inCall /\ relayLocalIn) =>
              Cardinality(DOMAIN peerConnections) = Cardinality(relayMembers)
        /\ (~inCall /\ ~relayLocalIn) => DOMAIN peerConnections = {}

\* C2: whenever a local stream is held, its audio track is enabled exactly
\* when the microphone is preferred on and the speaker is not deafened.
C2_AudioFollowsIntent ==
    localStream.held => (localStream.audio = (preferredMicEnabled /\ ~isDeafened))

OffersIn(msgs) == SelectSeq(msgs, LAMBDA x : x.type = "offer")

LeavesIn(msgs) == SelectSeq(msgs, LAMBDA x : x.type = "leave-voice-channel")

\* C4: leaveVoiceChannel(false) leaves the call state, the local stream, the
\* screen stream, every session and the device flags as they are and emits
\* no message.
C4_UnforcedLeaveKeepsCall ==
    [][last' = "leaveVoiceChannel(false)" =>
          /\ UNCHANGED <<inCall, mediaVars, peerConnections, deviceVars, tasks>>
          /\ sent' = <<>>]_vars

\* an unforced leave has run in a call that shares the screen, holds
\* sessions and is deafened
C4_Witness ==
    /\ last = "leaveVoiceChannel(false)"
    /\ inCall
    /\ localStream.held
    /\ screenStream = "live"
    /\ peerConnections # <<>>
    /\ isDeafened
    /\ callInterfaceHidden

\* C5 as stated: leaveVoiceChannel(true) in a voice channel stops the tracks
\* of the local stream, sets localStream to null, closes every session, emits
\* one leave-voice-channel and clears inCall.
C5_ForcedLeaveAnnouncesOnce ==
    [][last' = "leaveVoiceChannel(true)" =>
          /\ localStream' = NoStream
          /\ orphanStreams' = orphanStreams
          /\ peerConnections' = <<>>
          /\ Len(LeavesIn(sent')) = 1
          /\ ~inCall']_vars

\* C5: leaveVoiceChannel(true) in a voice channel stops the tracks of the
\* local stream, sets localStream to null, closes every session, clears
\* inCall, and emits one leave-voice-channel if the socket is connected and
\* none if it is not.
C5_ForcedLeaveAnnouncesIfConnected ==
    [][last' = "leaveVoiceChannel(true)" =>
          /\ localStream' = NoStream
          /\ orphanStreams' = orphanStreams
          /\ peerConnections' = <<>>
          /\ Len(LeavesIn(sent')) = (IF socketConnected THEN 1 ELSE 0)
          /\ Len(sent') = Len(LeavesIn(sent'))
          /\ ~inCall']_vars

\* a forced leave has run without a connection and announced nothing
C5_Witness ==
    /\ last = "leaveVoiceChannel(true)"
    /\ ~socketConnected
    /\ ~inCall
    /\ callInterfaceHidden
    /\ sent = <<>>
    /\ localStream = NoStream
    /\ peerConnections = <<>>

\* C6: when the media of a join that is still under way are denied, inCall
\* is cleared, no local stream and no session is left, no join-voice-channel
\* is emitted and no further join is pending.
C6_DeniedJoinReverts ==
    [][(last' = "joinVoiceChannel.denied" /\ inCall) =>
          /\ ~inCall'
          /\ localStream' = NoStream
          /\ peerConnections' = <<>>
          /\ \A i \in 1..Len(sent') : sent'[i].type # "join-voice-channel"
          /\ \A t \in BagToSet(tasks') :
                t.kind = "joinVoiceChannel" => CopiesIn(t, tasks') <= CopiesIn(t, tasks)
          /\ BagCardinality(tasks') < BagCardinality(tasks)]_vars

\* the media of a join under way were denied: the forced leave has run
C6_Witness ==
    /\ last = "joinVoiceChannel.denied"
    /\ ~inCall
    /\ Len(LeavesIn(sent)) = 1
    /\ localStream = NoStream
    /\ peerConnections = <<>>
    /\ tasks = EmptyBag

\* C7: a prompt that is neither accepted nor rejected is dismissed by its
\* timeout when RingTimeout seconds have passed, and a timeout dismisses a
\* prompt only then and sends the reject-call to the caller of that prompt.
C7_TimeoutIffUnanswered ==
    /\ []((~incomingHidden /\ ringElapsed = RingTimeout) =>
             \E tm \in timers : tm.remaining = 0)
    /\ [][last' = "timer.reject" =>
             /\ ringElapsed = RingTimeout
             /\ sent' = rejectCall(ringHandlers.caller)]_vars

\* ringing, in a direct call or in a voice channel
Busy == ~incomingHidden \/ inCall

\* C8: an incoming-call that arrives while the process is not Idle changes
\* neither the prompt nor its handlers and starts no timer.
C8_IncomingIgnoredUnlessIdle ==
    [][(last' = "incoming-call" /\ Busy) =>
          UNCHANGED <<incomingHidden, ringHandlers, timers, ringElapsed>>]_vars

\* no call, no stream, no session
Idle == ~inCall /\ ~localStream.held /\ peerConnections = <<>>

\* the outgoing call rings: nothing but the request has happened
OutgoingRinging ==
    /\ inCall
    /\ localStream.held
    /\ currentCallDetails.isInitiator
    /\ peerConnections = <<>>

\* C9: from Idle with the socket connected, granted media of initiateCall
\* set inCall, hold a local stream and emit exactly one initiate-call; a
\* call-rejected for the ringing outgoing call clears inCall, stops the
\* tracks of the local stream, sets localStream to null and leaves no session.
C9_InitiateThenRejected ==
    [][/\ (last' = "initiateCall.granted" /\ Idle /\ socketConnected) =>
             /\ inCall'
             /\ localStream'.held
             /\ orphanStreams' = orphanStreams
             /\ Len(sent') = 1
             /\ sent'[1].type = "initiate-call"
             /\ OutgoingRinging'
       /\ (last' = "call-rejected" /\ OutgoingRinging) =>
             /\ ~inCall'
             /\ localStream' = NoStream
             /\ orphanStreams' = orphanStreams
             /\ peerConnections' = <<>>]_vars

\* a call-rejected has ended an outgoing call: nothing is left of it
C9_Witness ==
    /\ last = "call-rejected"
    /\ currentCallDetails.isInitiator
    /\ Idle
    /\ orphanStreams = 0
    /\ callInterfaceHidden

\* C10: denied media of initiateCall change neither inCall nor the local
\* stream nor the sessions nor the call details, and nothing is emitted.
C10_DeniedCallChangesNothing ==
    [][last' = "initiateCall.denied" =>
          /\ UNCHANGED <<inCall, mediaVars, peerConnections, currentCallDetails,
                         callInterfaceHidden>>
          /\ sent' = <<>>
          /\ (Idle => Idle')]_vars

\* the media of a first call were denied: still Idle, no call was requested
C10_Witness ==
    /\ last = "initiateCall.denied"
    /\ Idle
    /\ ~currentCallDetails.defined
    /\ sent = <<>>

\* the reject-call messages among the emitted messages
RejectsIn(msgs) == SelectSeq(msgs, LAMBDA x : x.type = "reject-call")

\* C11: when the media of acceptCall are denied, the process is as before the
\* accept (inCall, local stream and sessions unchanged, no accept-call sent)
\* and one reject-call is sent to the caller.
C11_FailedAcceptRejects ==
    [][last' = "acceptCall.denied" =>
          /\ UNCHANGED <<inCall, mediaVars, peerConnections>>
          /\ \A i \in 1..Len(sent') : sent'[i].type # "accept-call"
          /\ Len(RejectsIn(sent')) = 1]_vars

\* a direct call with its one session to p, and no other capture running
ActiveCall(p) ==
    /\ inCall
    /\ localStream.held
    /\ orphanStreams = 0
    /\ currentCallDetails.defined
    /\ DOMAIN peerConnections = {p}

\* isAudioEnabled, isMuted, preferredMicEnabled, isVideoEnabled, isDeafened
\* have the values they are declared with
DeviceDefaults ==
    /\ isAudioEnabled
    /\ ~isMuted
    /\ preferredMicEnabled
    /\ isVideoEnabled
    /\ ~isDeafened

\* no session, no capture of any kind, not in a call
CallEnded ==
    /\ ~inCall
    /\ peerConnections = <<>>
    /\ localStream = NoStream
    /\ orphanStreams = 0
    /\ screenStream = "null"

\* C13: the close button, and a call-ended from the peer of the call's one
\* session, end an active direct call: the session is closed, every local
\* track is stopped and the device flags are back at their defaults.
C13_EndResetsDevices ==
    [][\A p \in Peers :
          (/\ ActiveCall(p)
           /\ \/ last' = "closeCall"
              \/ onCallEnded(InMsg("call-ended", p, {}, ""))) =>
             (CallEnded' /\ DeviceDefaults')]_vars

\* the close button has just ended a direct call with one session
C13_Witness ==
    /\ last = "closeCall"
    /\ \E p \in Peers :
          sent = <<Msg("end-call", p, ""), Msg("leave-voice-channel", 0, currentChannel)>>
    /\ CallEnded
    /\ DeviceDefaults

\* C14: when the one session of an active direct call has failed, the call
\* eventually ends (inCall is cleared) without the user or the peer ending it.
C14_FailedCallEnds ==
    \A p \in Peers :
        (ActiveCall(p) /\ peerConnections[p].ice = "failed") ~> ~inCall

\* C15: a session restarts its negotiation once, on its first connectivity
\* failure; a later failure of the same session starts no further restart.
C15_OneRestartPerSession ==
    [][last' = "ice.failed" =>
          \A p \in DOMAIN peerConnections' : peerConnections'[p].restarts <= 1]_vars

\* the session to p has sent its offer and has no remote description yet
AwaitingAnswer(p) ==
    /\ p \in DOMAIN peerConnections
    /\ peerConnections[p].offer = "sent"
    /\ ~peerConnections[p].remote

OpensSession == {"user-joined-voice", "existing-voice-users", "call-accepted", "offer"}

\* C18: createPeerConnection for a remote id that has a session returns the
\* sessions as they are, whatever role is passed: a handler that opens a
\* session leaves every session that exists as it is (its offer is neither
\* restarted nor sent) and emits nothing.
C18_OpenIsIdempotent ==
    /\ [](\A p \in DOMAIN peerConnections, role \in BOOLEAN :
             createPeerConnection(peerConnections, p, role, localStream) = peerConnections)
    /\ [][last' \in OpensSession =>
             /\ \A p \in DOMAIN peerConnections :
                   /\ p \in DOMAIN peerConnections'
                   /\ peerConnections'[p] = peerConnections[p]
             /\ sent' = <<>>]_vars

\* a user-joined-voice has arrived from a peer whose session is a responder
C18_Witness ==
    /\ last = "user-joined-voice"
    /\ peerConnections # <<>>
    /\ \A p \in DOMAIN peerConnections : ~peerConnections[p].initiator

\* C20: while the screen is shared in a call, every session that sends video
\* sends the screen track, the sessions opened during the share included.
C20_ShareIsTheVideoSource ==
    (screenStream = "live" /\ inCall /\ localStream.held) =>
        \A p \in DOMAIN peerConnections :
            peerConnections[p].vid # "none" => peerConnections[p].vid = "screen"

\* C17: no candidate received for a live session is lost: one that arrives
\* before the remote description is kept and applied once it is set.
C17_CandidatesAreBuffered ==
    \A p \in DOMAIN peerConnections : peerConnections[p].candLost = 0

\* what has been applied to the sessions: remote descriptions and candidates
AppliedTo(pcs) == [p \in DOMAIN pcs |-> <<pcs[p].remote, pcs[p].candApplied>>]

\* C19: a candidate or an answer sent for a session that was closed since is
\* applied to no session when it arrives, a fresh session for the same
\* remote id included.
C19_StaleIsDropped ==
    [][(stale'.msgs # stale.msgs /\ stale'.msgs \subseteq stale.msgs)
         => AppliedTo(peerConnections') = AppliedTo(peerConnections)]_vars

\* the callee of the direct call between the two processes has run acceptCall
\* with media granted
CalleeAccepted ==
    \/ remotePeer.role = "callee" /\ remotePeer.phase = "active"
    \/ /\ remotePeer.role = "caller"
       /\ last = "acceptCall.granted"
       /\ currentCallDetails.peer = remotePeer.id

\* each process holds one session to the other, the callee's the responder,
\* the caller's the initiator whose one offer got one answer, nothing in flight
Established ==
    /\ DOMAIN peerConnections = {remotePeer.id}
    /\ peerConnections[remotePeer.id].remote
    /\ remotePeer.answered
    /\ up = <<>> /\ down = <<>>
    /\ IF remotePeer.role = "callee"
         THEN /\ peerConnections[remotePeer.id].initiator
              /\ peerConnections[remotePeer.id].offer = "sent"
              /\ remotePeer.session = "responder"
              /\ remotePeer.offersIn = 1 /\ remotePeer.answersOut = 1
              /\ remotePeer.offersOut = 0 /\ remotePeer.answersIn = 0
         ELSE /\ ~peerConnections[remotePeer.id].initiator
              /\ peerConnections[remotePeer.id].offer = "none"
              /\ remotePeer.session = "initiator"
              /\ remotePeer.offersOut = 1 /\ remotePeer.answersIn = 1
              /\ remotePeer.offersIn = 0 /\ remotePeer.answersOut = 0

\* C12: over a relay that delivers every message, once the callee of a
\* direct call has accepted with media granted, each side eventually holds
\* exactly one session keyed by the other's id, the callee's as responder
\* (no offer), the caller's as initiator (one offer, answered by one answer);
\* at no time is there a second offer or a second answer.
C12_AcceptedCallConnects ==
    /\ [](/\ remotePeer.offersIn <= 1 /\ remotePeer.offersOut <= 1
          /\ remotePeer.answersIn <= 1 /\ remotePeer.answersOut <= 1
          /\ Cardinality(DOMAIN peerConnections) <= 1)
    /\ (CalleeAccepted ~> Established)

\* the local process called, the second one accepted, and the session stands
C12_Witness == Established /\ remotePeer.role = "callee" /\ last = "answer"

\* C21: when a live screen share ends, by the toggle or from outside,
\* screenStream is null afterwards, every session that sends video sends the
\* camera track, and the camera intent and the camera track's enabled flag
\* are what they were.
C21_ShareEndRestoresCamera ==
    [][(screenStream = "live" /\ last' \in {"toggleScreenShare.stop", "screenTrackEnded"})
         => /\ screenStream' = "null"
            /\ \A p \in DOMAIN peerConnections' :
                 peerConnections'[p].vid \in {"cam", "none"}
            /\ isVideoEnabled' = isVideoEnabled
            /\ localStream'.video = localStream.video]_vars

\* the session has a video sender
HasVideoSender(s) == s.vid # "none"

\* sessions pcs turned into sessions now by substituting track: the same
\* sessions, the same senders, the video senders carry track, no new offer
SubstitutedFrom(pcs, now, track) ==
    /\ DOMAIN now = DOMAIN pcs
    /\ \A p \in DOMAIN pcs :
         /\ HasVideoSender(now[p]) = HasVideoSender(pcs[p])
         /\ HasVideoSender(now[p]) => now[p].vid = track
         /\ now[p].aud = pcs[p].aud
         /\ now[p].offer = pcs[p].offer
         /\ now[p].remote = pcs[p].remote

OneToggleEach(msgs, ids, enabled) ==
    /\ Len(msgs) = Cardinality(ids)
    /\ \A i \in 1..Len(msgs) :
         msgs[i] = Msg("video-toggle", msgs[i].to, OnOff(enabled)) /\ msgs[i].to \in ids
    /\ \A p \in ids : \E i \in 1..Len(msgs) : msgs[i].to = p

\* C23 as stated: setCameraState(enabled) sets the intent and every local
\* video track to enabled whatever the deafened flag is, and sends one
\* video-toggle carrying enabled to each remote id with a session and to no
\* other address.
C23_CameraStateNotifiesAll ==
    [][\A enabled \in BOOLEAN :
         setCameraState(enabled) =>
           /\ isVideoEnabled' = enabled
           /\ localStream.held => (localStream'.held /\ localStream'.video = enabled)
           /\ OneToggleEach(sent', DOMAIN peerConnections, enabled)]_vars

\* C23 amended: the messages are sent while the socket is connected; on a
\* dropped connection setCameraState sends nothing.
C23_CameraStateNotifiesIfConnected ==
    [][\A enabled \in BOOLEAN :
         setCameraState(enabled) =>
           /\ isVideoEnabled' = enabled
           /\ localStream.held => (localStream'.held /\ localStream'.video = enabled)
           /\ localStream'.audio = localStream.audio
           /\ IF socketConnected
                THEN OneToggleEach(sent', DOMAIN peerConnections, enabled)
                ELSE sent' = <<>>]_vars

\* the camera was switched on while deafened, with two sessions open
C23_Witness ==
    /\ last = "setCameraState"
    /\ isDeafened /\ localStream.held /\ localStream.video /\ isVideoEnabled
    /\ Cardinality(DOMAIN peerConnections) = 2
    /\ Len(sent) = 2

\* every video element of a remote peer plays at volume v
PlaybackVolume(rps, v) == \A p \in DOMAIN rps : rps[p].video => rps[p].volume = v

\* C24: setSpeakerState(false) switches the held audio track off and leaves
\* the mic intent alone; setSpeakerState(true) sets the held audio track to
\* the mic intent and playback to full volume; a mic intent set in between
\* is recorded and, while deafened, leaves the track off.
C24_DeafenPreservesMicIntent ==
    /\ [][\A enabled \in BOOLEAN :
            setSpeakerState(enabled) =>
              /\ isDeafened' = ~enabled
              /\ preferredMicEnabled' = preferredMicEnabled
              /\ localStream.held =>
                   localStream'.audio = (enabled /\ preferredMicEnabled)
              /\ PlaybackVolume(remoteParticipants', IF enabled THEN 1 ELSE 0)]_vars
    /\ [][(isDeafened /\ last' \in {"setMicrophoneState", "toggleAudio"}) =>
            /\ isDeafened'
            /\ \E m \in BOOLEAN :
                 /\ (setMicrophoneState(m) \/ (toggleAudio /\ m = ~isAudioEnabled))
                 /\ preferredMicEnabled' = m
            /\ localStream.held => ~localStream'.audio]_vars

\* the speaker was switched back on with the mic intent off: the track stays
\* off and a rendered peer plays at full volume
C24_Witness ==
    /\ last = "setSpeakerState"
    /\ ~isDeafened /\ ~preferredMicEnabled
    /\ localStream.held /\ ~localStream.audio
    /\ \E p \in DOMAIN remoteParticipants :
         remoteParticipants[p].video /\ remoteParticipants[p].volume = 1

\* the handler steps that end in a catch block telling the user (alert)
ReportsError(label) ==
    label \in {"initiateCall.denied", "acceptCall.denied", "joinVoiceChannel.denied",
               "toggleScreenShare.denied"}

\* C25: an offer that is applied is answered by one answer to its sender; when
\* applying it or producing the answer fails, the failure is reported or the
\* session is not left behind without an answer.
C25_OfferAnsweredOrReported ==
    [][\A t \in Pending("offer") :
         /\ offerAnswered(t) =>
              /\ sent' = <<Msg("answer", t.peer, "")>>
              /\ peerConnections'[t.peer].remote
         /\ offerFailed(t) =>
              \/ ReportsError(last')
              \/ t.peer \notin DOMAIN peerConnections'
              \/ peerConnections'[t.peer].remote]_vars

\* C26: user-left-voice for a remote id removes its session, its video
\* element and its participant container and leaves the other sessions and
\* their output alone; a track of a later session of that id is rendered.
C26_LeftMemberIsUnrendered ==
    /\ [][\A p \in Peers :
            onUserLeftVoice(InMsg("user-left-voice", p, {}, "")) =>
              /\ p \notin DOMAIN peerConnections'
              /\ p \notin DOMAIN remoteParticipants'
              /\ \A q \in DOMAIN peerConnections \ {p} :
                   q \in DOMAIN peerConnections' /\ peerConnections'[q] = peerConnections[q]
              /\ \A q \in DOMAIN remoteParticipants \ {p} :
                   /\ q \in DOMAIN remoteParticipants'
                   /\ remoteParticipants'[q] = remoteParticipants[q]]_vars
    /\ [][\A p \in Peers :
            (last' = "ontrack" /\ onTrack(p)) =>
              /\ p \in DOMAIN remoteParticipants'
              /\ remoteParticipants'[p].video
              /\ remoteParticipants'[p].playing]_vars

\* a direct call is Active: in a call with call details, media held and a
\* session to the peer of the call
DirectCallActive ==
    /\ inCall
    /\ currentCallDetails.defined
    /\ localStream.held
    /\ currentCallDetails.peer \in DOMAIN peerConnections

\* C27: while a direct call is Active its session is the only session.
C27_OneSessionPerDirectCall ==
    DirectCallActive => DOMAIN peerConnections = {currentCallDetails.peer}

\* C28: no capture stream stays live without a variable that refers to it,
\* and none is held after the flow that acquired it has ended.
C28_StreamsOwnedByTheirFlow ==
    /\ orphanStreams = 0
    /\ localStream.held => inCall

\* C29: call-rejected and call-accepted that arrive while no outgoing call
\* rings, and call-ended from a party without a session, change neither
\* inCall nor the local stream nor the set of sessions.
C29_MismatchedControlIsDropped ==
    [][(\/ last' \in {"call-rejected", "call-accepted"} /\ ~OutgoingRinging
        \/ \E p \in Peers \ DOMAIN peerConnections :
             onCallEnded(InMsg("call-ended", p, {}, "")))
         => /\ UNCHANGED <<inCall, localStream>>
            /\ DOMAIN peerConnections' = DOMAIN peerConnections]_vars

\* tm is the timer of the prompt that is shown: started with it, for its caller
TimerOfPrompt(tm) ==
    /\ ~incomingHidden
    /\ tm.caller = ringHandlers.caller
    /\ tm.remaining = RingTimeout - ringElapsed

\* C30: the timer of a call that was accepted or rejected has no effect when
\* its 30 s are over: it sends nothing and leaves the prompt of a later call.
C30_AnsweredCallTimerIsInert ==
    [][\A tm \in timers :
         (timerFire(tm) /\ ~TimerOfPrompt(tm)) =>
            /\ sent' = <<>>
            /\ incomingHidden' = incomingHidden]_vars

\* both members hold an initiator session toward each other
BothInitiate ==
    /\ remotePeer.role = "member"
    /\ remotePeer.session \in {"creating", "initiator"}
    /\ remotePeer.id \in DOMAIN peerConnections
    /\ peerConnections[remotePeer.id].initiator

\* C31: of two members of a voice channel served by a well-behaved relay,
\* never both hold an initiator session toward the other, and no offer
\* arrives at a session that has sent its own offer and awaits the answer.
C31_OneSideOffers ==
    /\ [](~BothInitiate)
    /\ [][\A m \in MsgsOf({"offer"}) : onOffer(m) => ~AwaitingAnswer(m.from)]_vars

\* C32: a session exists only while the process is in a call or channel:
\* whenever peerConnections is not empty, inCall is true.
C32_SessionsOnlyInCall == peerConnections # <<>> => inCall

\* the join-voice-channel announcements among the emitted messages
JoinsIn(msgs) == SelectSeq(msgs, LAMBDA x : x.type = "join-voice-channel")

\* C33: when the media of a join arrive after a forced leave has ended that
\* join (inCall is false again), no join-voice-channel is emitted and no
\* local stream is held: the process stays out of the channel.
C33_LeftJoinStaysLeft ==
    [][(last' = "joinVoiceChannel.granted" /\ ~inCall) =>
          /\ JoinsIn(sent') = <<>>
          /\ localStream' = NoStream
          /\ ~inCall']_vars

\* C34: the media of initiateCall or acceptCall granted to a process that is
\* in a call, rings outgoing or is in a voice channel (inCall is true) change
\* neither the held local stream nor the call record, and no initiate-call or
\* accept-call is sent.
C34_CallsNeedIdle ==
    [][(last' \in {"initiateCall.granted", "acceptCall.granted"} /\ inCall) =>
          /\ UNCHANGED <<localStream, orphanStreams, currentCallDetails>>
          /\ sent' = <<>>]_vars

\* the local process has announced a join that it has not announced to have
\* left: the relay counts it as a member once it has handled what was sent
Announced ==
    IF up # <<>> THEN up[Len(up)].type = "join-voice-channel" ELSE relayLocalIn

\* C35: a leave-voice-channel is sent only after a join-voice-channel that
\* has not been left yet, and it names the voice channel that was joined.
C35_LeaveFollowsJoin ==
    [][\A i \in 1..Len(sent') :
          sent'[i].type = "leave-voice-channel" =>
              /\ Announced
              /\ sent'[i].arg \in VoiceChannels]_vars

\* C36: when the close-call button ends a direct call, ringing or answered,
\* over a connected socket, an end-call is sent to the other party of the call.
C36_CloseTellsTheOtherParty ==
    [][(last' = "closeCall" /\ inCall /\ currentCallDetails.defined /\ socketConnected) =>
          \E i \in 1..Len(sent') :
              sent'[i] = Msg("end-call", currentCallDetails.peer, "")]_vars

\* C37: a display capture is held only while local media is held: whenever
\* screenStream is not null, localStream is not null.
C37_ShareNeedsLocalMedia == screenStream # "null" => localStream.held

\* C38: whenever a local stream is held, the enabled flag of its video track
\* equals the camera intent isVideoEnabled.
C38_VideoFollowsIntent == localStream.held => (localStream.video = isVideoEnabled)

\* C39: the two microphone flags never disagree: isMuted is the negation of
\* isAudioEnabled in every reachable state.
C39_MicFlagsAgree == isMuted = ~isAudioEnabled

\* C40: whenever the process returns to the non-call state, by the close
\* button, a call-ended, a call-rejected or a failed join, the device flags
\* are at their defaults.
C40_EndRestoresDefaults ==
    [][(inCall /\ ~inCall') => DeviceDefaults']_vars

====
